---- MODULE Spec2Model ----
(***************************************************************************)
(* Document store of the GxP document-management application: documents,   *)
(* workflow templates, the signature registry and the audit trail, with    *)
(* one action per store operation.  crypto.randomUUID() is the counter     *)
(* nextId, new Date() is the counter clock.  Array indices are 0-based as  *)
(* in the source; TLA+ sequences are 1-based, so element i of an array is  *)
(* seq[i + 1].                                                             *)
(***************************************************************************)
EXTENDS Integers, Sequences, FiniteSets, TLC

VARIABLES documentTypes, documents, workflows, auditTrail, signatures,
          bootstrapped, nextId, clock, lastCall, limits, page,
          auth, registrations, second, logins

storeVars == <<documentTypes, documents, workflows, auditTrail, signatures,
               bootstrapped>>
vars == <<documentTypes, documents, workflows, auditTrail, signatures,
          bootstrapped, nextId, clock, lastCall, limits, page,
          auth, registrations, second, logins>>

-----------------------------------------------------------------------------
(* Bounds of the model. *)
MaxAudit == 3
MaxDocs == 2
MaxWorkflows == 2
MaxSteps == 2
MaxEngineAudit == 4
MaxEngineDocs == 1
MaxEngineWorkflows == 1
MaxPairAudit == 4

MaxPairDocs == 2

MaxPairWorkflows == 1

MaxRoundTripAudit == 7

MaxUsers == 7

MaxRegistrations == 3

MaxLogins == 2

MaxLoginTime == 3

-----------------------------------------------------------------------------
(* Encoding of JavaScript values. *)
undefinedStr == "undefined"
undefinedTime == 0

Uuid(n) == "id" \o ToString(n)

OK == "ok"

SYSTEM_USER_ID == "system"

SUPPORTED_ROLES == <<"Admin", "Author", "Reviewer", "QA", "Approver", "Viewer">>

DOCUMENT_TYPE_OPTIONS ==
  <<"Manual", "Procedure", "Process", "Work Instruction", "Policy",
    "Checklist", "Format", "Template", "Masters">>

Range(s) == {s[i] : i \in DOMAIN s}

(* Array.prototype.unshift: insert at the head. *)
Unshift(s, e) == <<e>> \o s

(* arr[i] for a 0-based index i; the caller tests Has(arr, i) first where *)
(* the source tests for undefined.                                        *)
Has(arr, i) == i >= 0 /\ i < Len(arr)
At(arr, i) == arr[i + 1]

(* Array.prototype.findIndex / find: 0-based index of the first match, -1 *)
(* when there is none.                                                    *)
FindIndex(arr, P(_)) ==
  IF \E i \in DOMAIN arr : P(arr[i])
  THEN (CHOOSE i \in DOMAIN arr : P(arr[i]) /\ \A j \in 1..(i - 1) : ~P(arr[j])) - 1
  ELSE -1

-----------------------------------------------------------------------------
(* The store state as one record, the draft handed to an immer recipe. *)
Store ==
  [documentTypes |-> documentTypes, documents |-> documents,
   workflows |-> workflows, auditTrail |-> auditTrail,
   signatures |-> signatures, bootstrapped |-> bootstrapped]

(* A variant of recordAudit that uses push instead of unshift: the new *)
(* entry goes to the tail.                                             *)
recordAuditAtTail(st, id, now, entry) ==
  [st EXCEPT !.auditTrail =
     Append(@, [id |-> id, timestamp |-> now,
                actorUserId |-> entry.actorUserId, action |-> entry.action,
                entityType |-> entry.entityType, entityId |-> entry.entityId,
                summary |-> entry.summary, metadata |-> entry.metadata])]

(* recordAudit: a new entry with a fresh id and the current time goes to *)
(* the head of the audit trail.                                          *)
recordAudit(st, id, now, entry) ==
  [st EXCEPT !.auditTrail =
     Unshift(@, [id |-> id, timestamp |-> now,
                 actorUserId |-> entry.actorUserId, action |-> entry.action,
                 entityType |-> entry.entityType, entityId |-> entry.entityId,
                 summary |-> entry.summary, metadata |-> entry.metadata])]

(* upsertSignature: a new signature with a fresh id and the current time *)
(* goes to the head of the registry.                                     *)
(* A variant of upsertSignature that builds the signature and returns it *)
(* without storing it in the registry.                                   *)
upsertSignatureDropped(st, id, now, signature) == st

(* A variant of the signature record whose id is derived from the step *)
(* it signs instead of being drawn afresh.                             *)
NewSignatureKeyedByStep(id, now, signature) ==
  [id |-> "sig-" \o signature.workflowStepId, signedAt |-> now,
   userId |-> signature.userId,
   documentId |-> signature.documentId,
   workflowStepId |-> signature.workflowStepId,
   meaning |-> signature.meaning, reason |-> signature.reason,
   evidence |-> signature.evidence]

(* The record upsertSignature builds: a fresh id and the time of signing *)
(* on top of the caller's fields.                                        *)
NewSignature(id, now, signature) ==
  [id |-> id, signedAt |-> now, userId |-> signature.userId,
   documentId |-> signature.documentId,
   workflowStepId |-> signature.workflowStepId,
   meaning |-> signature.meaning, reason |-> signature.reason,
   evidence |-> signature.evidence]

(* A variant of upsertSignature that keeps one signature per user and *)
(* document, replacing the earlier one.                               *)
upsertSignatureByUser(st, id, now, signature) ==
  [st EXCEPT !.signatures =
     Unshift(SelectSeq(@, LAMBDA sig : ~(/\ sig.userId = signature.userId
                                         /\ sig.documentId = signature.documentId)),
             NewSignature(id, now, signature))]

(* upsertSignature: the new record goes to the head of the registry. *)
upsertSignature(st, id, now, signature) ==
  [st EXCEPT !.signatures = Unshift(@, NewSignature(id, now, signature))]

(* A variant of buildWorkflowInstance that opens no step. *)
buildWorkflowInstanceAllPending(workflow, now) ==
  [templateId |-> workflow.id,
   status |-> "Draft",
   currentStepIndex |-> 0,
   steps |-> [i \in 1..Len(workflow.steps) |->
                [stepId |-> workflow.steps[i].id,
                 status |-> "Pending",
                 startedAt |-> undefinedTime,
                 completedAt |-> undefinedTime,
                 actorUserId |-> undefinedStr,
                 signatureId |-> undefinedStr,
                 notes |-> undefinedStr]],
   initiatedAt |-> now]

(* buildWorkflowInstance *)
buildWorkflowInstance(workflow, now) ==
  [templateId |-> workflow.id,
   status |-> "Draft",
   currentStepIndex |-> 0,
   steps |-> [i \in 1..Len(workflow.steps) |->
                [stepId |-> workflow.steps[i].id,
                 status |-> IF i - 1 = 0 THEN "In Progress" ELSE "Pending",
                 startedAt |-> IF i - 1 = 0 THEN now ELSE undefinedTime,
                 completedAt |-> undefinedTime,
                 actorUserId |-> undefinedStr,
                 signatureId |-> undefinedStr,
                 notes |-> undefinedStr]],
   initiatedAt |-> now]

(* A variant of buildVersion that ignores the label it is given. *)
buildVersionUnlabelled(id, label, summary, actorId, now) ==
  [id |-> id, versionLabel |-> "draft", createdAt |-> now,
   createdById |-> actorId, summary |-> summary,
   supersededAt |-> undefinedTime]

(* buildVersion *)
buildVersion(id, label, summary, actorId, now) ==
  [id |-> id, versionLabel |-> label, createdAt |-> now,
   createdById |-> actorId, summary |-> summary,
   supersededAt |-> undefinedTime]

(* The result of a handler: the error it threw (OK when it returned), the *)
(* store state it leaves and the number of UUIDs it drew.                 *)
Result(err, st, ids) == [err |-> err, st |-> st, ids |-> ids]

(* A variant of the throw that first logs the failed attempt in the audit *)
(* trail, outside the recipe.                                            *)
ThrowAudited(st, err) ==
  Result(err,
         [st EXCEPT !.auditTrail =
            Unshift(@, [id |-> "failed", timestamp |-> undefinedTime,
                        actorUserId |-> undefinedStr,
                        action |-> "OPERATION_FAILED",
                        entityType |-> "System", entityId |-> undefinedStr,
                        summary |-> err, metadata |-> undefinedStr])],
         0)

(* throw inside set(produce(...)): immer discards the draft and set() is *)
(* not reached, so the store stays the one the handler was called on.    *)
Throw(st, err) == Result(err, st, 0)

(* A variant of the write through `doc` that also stamps every other *)
(* document with the time of the write.                               *)
ReplaceDocumentStampingAll(st, docIndex, doc) ==
  [st EXCEPT !.documents =
     [i \in DOMAIN @ |-> IF i = docIndex + 1
                         THEN doc
                         ELSE [@[i] EXCEPT !.lastUpdatedAt = doc.lastUpdatedAt]]]

(* A write through the draft reference `doc` found in draft.documents. *)
ReplaceDocument(st, docIndex, doc) ==
  [st EXCEPT !.documents[docIndex + 1] = doc]


-----------------------------------------------------------------------------
(* Seed data of src/lib/defaults.ts. *)

(* createDefaultDocumentTypes: one type per option, ids n .. n + 8. *)
createDefaultDocumentTypes(creatorId, n, now) ==
  [i \in 1..Len(DOCUMENT_TYPE_OPTIONS) |->
     [id |-> Uuid(n + i - 1),
      type |-> DOCUMENT_TYPE_OPTIONS[i],
      description |-> DOCUMENT_TYPE_OPTIONS[i] \o " controlled document",
      obsolete |-> FALSE,
      createdAt |-> now,
      createdById |-> creatorId]]

(* buildWorkflowSteps: the four steps of the standard workflow, ids n .. n + 3. *)
buildWorkflowSteps(n) ==
  LET steps ==
        <<[label |-> "Author Draft Review", role |-> "Author",
           meaning |-> "Draft prepared in accordance with applicable SOPs."],
          [label |-> "Independent Review", role |-> "Reviewer",
           meaning |-> "Independent review completed; document complies with applicable standards."],
          [label |-> "Quality Assurance Approval", role |-> "QA",
           meaning |-> "QA approval verifying change control, training impact, and compliance."],
          [label |-> "Final Approval", role |-> "Approver",
           meaning |-> "Final release approval granted; document ready for issuance."]>>
  IN [i \in 1..Len(steps) |->
        [id |-> Uuid(n + i - 1),
         label |-> steps[i].label,
         role |-> steps[i].role,
         requiresSignature |-> TRUE,
         signatureMeaning |-> steps[i].meaning]]

(* createDefaultWorkflow: id n, step ids n + 1 .. n + 4. *)
createDefaultWorkflow(creatorId, n, now) ==
  [id |-> Uuid(n),
   name |-> "Standard GxP Controlled Document Workflow",
   steps |-> buildWorkflowSteps(n + 1),
   isDefault |-> TRUE,
   createdAt |-> now,
   createdById |-> creatorId]

-----------------------------------------------------------------------------
(* The store operations.  Each operator is the whole handler: it returns  *)
(* the error thrown (or OK), the resulting store and the UUIDs consumed.  *)
(* A throw inside an immer recipe discards the draft, and set() is never  *)
(* reached, so the store is the one the handler started from.             *)

bootstrap(st, n, now) ==
  IF st.bootstrapped
  THEN Result(OK, st, 0)
  ELSE LET defaultTypes == createDefaultDocumentTypes(SYSTEM_USER_ID, n, now)
           defaultWorkflow == createDefaultWorkflow(SYSTEM_USER_ID, n + 9, now)
           d1 == [st EXCEPT !.documentTypes = defaultTypes,
                            !.workflows = <<defaultWorkflow>>,
                            !.bootstrapped = TRUE]
       IN Result(OK,
                 recordAudit(d1, Uuid(n + 14), now,
                   [actorUserId |-> SYSTEM_USER_ID,
                    action |-> "SYSTEM_BOOTSTRAP",
                    entityType |-> "System",
                    entityId |-> SYSTEM_USER_ID,
                    summary |-> "Initialized default workflows and document types for compliance baseline.",
                    metadata |-> [defaultTypes |-> Len(defaultTypes),
                                  workflow |-> defaultWorkflow.name]]),
                 15)

addDocumentType(st, input, actorId, n, now) ==
  IF \E i \in DOMAIN st.documentTypes : st.documentTypes[i].type = input.type
  THEN Throw(st, "Document type already exists.")
  ELSE LET newType == [id |-> Uuid(n), type |-> input.type,
                       description |-> input.description, obsolete |-> FALSE,
                       createdAt |-> now, createdById |-> actorId]
           d1 == [st EXCEPT !.documentTypes = Unshift(@, newType)]
       IN Result(OK,
                 recordAudit(d1, Uuid(n + 1), now,
                   [actorUserId |-> actorId,
                    action |-> "DOCUMENT_TYPE_CREATED",
                    entityType |-> "DocumentType",
                    entityId |-> newType.id,
                    summary |-> "Created document type " \o newType.type,
                    metadata |-> [description |-> newType.description]]),
                 2)

(* { ...target, ...updates }: the fields of updates override those of target. *)
Merge(target, updates) ==
  [f \in DOMAIN target \cup DOMAIN updates |->
     IF f \in DOMAIN updates THEN updates[f] ELSE target[f]]

updateDocumentType(st, id, updates, actorId, n, now) ==
  LET index == FindIndex(st.documentTypes, LAMBDA t : t.id = id)
  IN IF index = -1
     THEN Throw(st, "Document type not found.")
     ELSE LET d1 == [st EXCEPT !.documentTypes[index + 1] = Merge(@, updates)]
          IN Result(OK,
                    recordAudit(d1, Uuid(n), now,
                      [actorUserId |-> actorId,
                       action |-> "DOCUMENT_TYPE_UPDATED",
                       entityType |-> "DocumentType",
                       entityId |-> id,
                       summary |-> "Updated document type details",
                       metadata |-> updates]),
                    1)

(* A variant of the resolution that looks at the default flag before the *)
(* requested id.                                                         *)
ResolveWorkflowDefaultFirst(wfs, workflowTemplateId) ==
  LET byId == FindIndex(wfs, LAMBDA c : c.id = workflowTemplateId)
      byDefault == FindIndex(wfs, LAMBDA c : c.isDefault)
  IN IF byDefault # -1 THEN byDefault + 1
     ELSE IF byId # -1 THEN byId + 1
     ELSE IF Len(wfs) > 0 THEN 1
     ELSE 0

(* The template createDocument resolves: the one with the requested id,  *)
(* else the default one, else the first one; 0 when the catalog is empty. *)
ResolveWorkflow(wfs, workflowTemplateId) ==
  LET byId == FindIndex(wfs, LAMBDA c : c.id = workflowTemplateId)
      byDefault == FindIndex(wfs, LAMBDA c : c.isDefault)
  IN IF byId # -1 THEN byId + 1
     ELSE IF byDefault # -1 THEN byDefault + 1
     ELSE IF Len(wfs) > 0 THEN 1
     ELSE 0

(* createDocument: version id n, document id n + 1, audit id n + 2. *)
createDocument(st, input, n, now) ==
  LET w == ResolveWorkflow(st.workflows, input.workflowTemplateId)
  IN IF w = 0
     THEN Throw(st, "No workflow template available.")
     ELSE LET workflow == st.workflows[w]
              version == buildVersion(Uuid(n), input.version, input.summary,
                                      input.createdById, now)
              document ==
                [id |-> Uuid(n + 1),
                 title |-> input.title,
                 currentVersion |-> input.version,
                 documentTypeId |-> input.documentTypeId,
                 metadata |-> [createdById |-> input.createdById,
                               security |-> input.security],
                 workflow |-> buildWorkflowInstance(workflow, now),
                 versionHistory |-> <<version>>,
                 riskClassification |-> input.riskClassification,
                 lastUpdatedAt |-> now]
              d1 == [st EXCEPT !.documents = Unshift(@, document)]
          IN Result(OK,
                    recordAudit(d1, Uuid(n + 2), now,
                      [actorUserId |-> input.createdById,
                       action |-> "DOCUMENT_CREATED",
                       entityType |-> "Document",
                       entityId |-> document.id,
                       summary |-> "Created document " \o document.title
                                   \o " v" \o document.currentVersion,
                       metadata |-> [security |-> document.metadata.security,
                                     workflow |-> workflow.name]]),
                    3)

updateDocument(st, input, n, now) ==
  LET docIndex == FindIndex(st.documents, LAMBDA d : d.id = input.id)
  IN IF docIndex = -1
     THEN Throw(st, "Document not found.")
     ELSE LET target == At(st.documents, docIndex)
              inputMetadata == IF "metadata" \in DOMAIN input.updates
                               THEN input.updates.metadata
                               ELSE [x \in {} |-> x]
              merged == [Merge(target, input.updates) EXCEPT
                           !.metadata = Merge(target.metadata, inputMetadata),
                           !.lastUpdatedAt = now]
              d1 == ReplaceDocument(st, docIndex, merged)
          IN Result(OK,
                    recordAudit(d1, Uuid(n), now,
                      [actorUserId |-> input.actorId,
                       action |-> "DOCUMENT_UPDATED",
                       entityType |-> "Document",
                       entityId |-> input.id,
                       summary |-> "Metadata updated for " \o target.title,
                       metadata |-> input.updates]),
                    1)

(* A variant of the version push that does not supersede the head. *)
PushVersionWithoutSuperseding(doc, newVersion, versionLabel, now) ==
  [doc EXCEPT !.versionHistory = Unshift(@, newVersion),
              !.currentVersion = versionLabel,
              !.lastUpdatedAt = now]

(* A variant of the version push that leaves currentVersion alone. *)
PushVersionKeepingCurrent(doc, newVersion, versionLabel, now) ==
  LET superseded ==
        [doc.versionHistory EXCEPT ![1].supersededAt =
           IF @ = undefinedTime THEN now ELSE @]
  IN [doc EXCEPT !.versionHistory = Unshift(superseded, newVersion),
                 !.lastUpdatedAt = now]

(* addVersion on the document: the head version is superseded (unless it *)
(* already was), the new version goes in front of it and becomes the     *)
(* current one.                                                          *)
PushVersion(doc, newVersion, versionLabel, now) ==
  LET superseded ==
        [doc.versionHistory EXCEPT ![1].supersededAt =
           IF @ = undefinedTime THEN now ELSE @]
  IN [doc EXCEPT !.versionHistory = Unshift(superseded, newVersion),
                 !.currentVersion = versionLabel,
                 !.lastUpdatedAt = now]

(* addVersion: version id n, audit id n + 1. *)
addVersion(st, input, n, now) ==
  LET docIndex == FindIndex(st.documents, LAMBDA d : d.id = input.documentId)
  IN IF docIndex = -1
     THEN Throw(st, "Document not found.")
     ELSE LET doc == At(st.documents, docIndex)
              newVersion == buildVersion(Uuid(n), input.versionLabel,
                                         input.summary, input.actorId, now)
              doc1 == PushVersion(doc, newVersion, input.versionLabel, now)
              d1 == ReplaceDocument(st, docIndex, doc1)
          IN Result(OK,
                    recordAudit(d1, Uuid(n + 1), now,
                      [actorUserId |-> input.actorId,
                       action |-> "DOCUMENT_VERSIONED",
                       entityType |-> "Document",
                       entityId |-> doc.id,
                       summary |-> "New version " \o input.versionLabel \o " created",
                       metadata |-> [summary |-> input.summary,
                                     totalVersions |-> Len(doc1.versionHistory)]]),
                    2)

(* A variant of the role gate with a role hierarchy: Admin may act on *)
(* every step.                                                        *)
RoleMatchesOrAdmin(stepDefinition, actorRole) ==
  stepDefinition.role = actorRole \/ actorRole = "Admin"

(* The role gate of advanceWorkflow and rejectWorkflow. *)
RoleMatches(stepDefinition, actorRole) == stepDefinition.role = actorRole

(* A variant of the completion that records the signature on the step *)
(* but leaves its status as it was.                                   *)
CompleteStepStillOpen(currentStep, input, signatureId, now) ==
  [currentStep EXCEPT !.completedAt = now,
                      !.actorUserId = input.actorId,
                      !.signatureId = signatureId,
                      !.notes = input.notes]

(* advanceWorkflow marks the current step completed. *)
CompleteStep(currentStep, input, signatureId, now) ==
  [currentStep EXCEPT !.status = "Completed",
                      !.completedAt = now,
                      !.actorUserId = input.actorId,
                      !.signatureId = signatureId,
                      !.notes = input.notes]

(* A variant of the move to the next step that reports In Review even *)
(* after the last step.                                               *)
MoveOnAlwaysInReview(workflow) ==
  LET nextIndex == workflow.currentStepIndex + 1
  IN IF nextIndex >= Len(workflow.steps)
     THEN [workflow EXCEPT !.status = "In Review",
                           !.currentStepIndex = nextIndex]
     ELSE [workflow EXCEPT !.currentStepIndex = nextIndex,
                           !.steps[nextIndex + 1].status = "In Progress",
                           !.status = "In Review"]

(* A variant of the move to the next step that forgets to open it. *)
MoveOnWithoutOpening(workflow) ==
  LET nextIndex == workflow.currentStepIndex + 1
  IN IF nextIndex >= Len(workflow.steps)
     THEN [workflow EXCEPT !.status = "Approved",
                           !.currentStepIndex = nextIndex]
     ELSE [workflow EXCEPT !.currentStepIndex = nextIndex,
                           !.status = "In Review"]

(* advanceWorkflow moves the instance on: past the end and Approved after *)
(* the last step, else to the next step, which becomes In Progress.      *)
MoveOn(workflow) ==
  LET nextIndex == workflow.currentStepIndex + 1
  IN IF nextIndex >= Len(workflow.steps)
     THEN [workflow EXCEPT !.status = "Approved",
                           !.currentStepIndex = nextIndex]
     ELSE [workflow EXCEPT !.currentStepIndex = nextIndex,
                           !.steps[nextIndex + 1].status = "In Progress",
                           !.status = "In Review"]

(* A variant of the audit summary that never reports the completion. *)
AdvanceSummaryAlwaysSignedOff(stepDefinition, status) ==
  stepDefinition.label \o " signed off"

(* The audit summary of advanceWorkflow. *)
AdvanceSummary(stepDefinition, status) ==
  IF status = "Approved"
  THEN "Workflow completed and document approved"
  ELSE stepDefinition.label \o " signed off"

(* rejectWorkflow marks the current step rejected ... *)
RejectStep(currentStep, actorId, reason, now) ==
  [currentStep EXCEPT !.status = "Rejected",
                      !.completedAt = now,
                      !.actorUserId = actorId,
                      !.notes = reason]

(* A variant of the reset that rewrites the status of the first step *)
(* only.                                                             *)
ResetStepsFirstOnly(steps, now) ==
  [i \in 1..Len(steps) |->
     [steps[i] EXCEPT
        !.status = IF i - 1 = 0 THEN "In Progress" ELSE @,
        !.startedAt = IF i - 1 = 0 THEN now ELSE undefinedTime,
        !.completedAt = undefinedTime,
        !.actorUserId = undefinedStr,
        !.signatureId = undefinedStr]]

(* A variant of the reset that spreads each step without clearing its *)
(* signature reference.                                               *)
ResetStepsKeepingSignature(steps, now) ==
  [i \in 1..Len(steps) |->
     [steps[i] EXCEPT
        !.status = IF i - 1 = 0 THEN "In Progress" ELSE "Pending",
        !.startedAt = IF i - 1 = 0 THEN now ELSE undefinedTime,
        !.completedAt = undefinedTime,
        !.actorUserId = undefinedStr]]

(* ... and then resets every step of the instance. *)
ResetSteps(steps, now) ==
  [i \in 1..Len(steps) |->
     [steps[i] EXCEPT
        !.status = IF i - 1 = 0 THEN "In Progress" ELSE "Pending",
        !.startedAt = IF i - 1 = 0 THEN now ELSE undefinedTime,
        !.completedAt = undefinedTime,
        !.actorUserId = undefinedStr,
        !.signatureId = undefinedStr]]

(* A variant of the rejection that also revokes the signatures minted *)
(* for the document so far.                                           *)
ResetInstanceRevoking(st, docIndex, actorId, reason, now) ==
  LET doc == At(st.documents, docIndex)
      doc1 == [doc EXCEPT !.workflow.status = "Draft",
                          !.workflow.currentStepIndex = 0,
                          !.workflow.steps = ResetSteps(@, now),
                          !.lastUpdatedAt = now]
  IN [ReplaceDocument(st, docIndex, doc1) EXCEPT
        !.signatures = SelectSeq(@, LAMBDA sig : sig.documentId # doc.id)]

(* The writes of a successful rejectWorkflow: the current step is marked *)
(* rejected, then the instance goes back to Draft at step 0 with every  *)
(* step reset.                                                          *)
ResetInstance(st, docIndex, actorId, reason, now) ==
  LET doc == At(st.documents, docIndex)
      index == doc.workflow.currentStepIndex
      rejected == RejectStep(At(doc.workflow.steps, index), actorId, reason, now)
      steps1 == [doc.workflow.steps EXCEPT ![index + 1] = rejected]
      doc1 == [doc EXCEPT !.workflow.status = "Draft",
                          !.workflow.currentStepIndex = 0,
                          !.workflow.steps = ResetSteps(steps1, now),
                          !.lastUpdatedAt = now]
  IN ReplaceDocument(st, docIndex, doc1)

(* A variant of the precondition checks of advanceWorkflow that looks at *)
(* the instance's current step before it looks for the template.        *)
AdvanceFailureStepFirst(st, input) ==
  LET docIndex == FindIndex(st.documents, LAMBDA d : d.id = input.documentId)
  IN IF docIndex = -1
     THEN "Document not found."
     ELSE
     LET doc == At(st.documents, docIndex)
         tplIndex == FindIndex(st.workflows, LAMBDA wf : wf.id = doc.workflow.templateId)
         index == doc.workflow.currentStepIndex
     IN IF ~Has(doc.workflow.steps, index)
        THEN "Workflow is already complete."
        ELSE IF tplIndex = -1
        THEN "Workflow template missing."
        ELSE IF ~Has(At(st.workflows, tplIndex).steps, index)
        THEN "Workflow is already complete."
        ELSE IF ~RoleMatches(At(At(st.workflows, tplIndex).steps, index),
                             input.actorRole)
        THEN "This workflow step requires "
               \o At(At(st.workflows, tplIndex).steps, index).role \o " role."
        ELSE OK

(* The precondition checks of advanceWorkflow, in their order: the error *)
(* of the first one violated, OK when all hold.                          *)
AdvanceFailure(st, input) ==
  LET docIndex == FindIndex(st.documents, LAMBDA d : d.id = input.documentId)
  IN IF docIndex = -1
     THEN "Document not found."
     ELSE
     LET doc == At(st.documents, docIndex)
         tplIndex == FindIndex(st.workflows, LAMBDA wf : wf.id = doc.workflow.templateId)
     IN IF tplIndex = -1
        THEN "Workflow template missing."
        ELSE
        LET template == At(st.workflows, tplIndex)
            index == doc.workflow.currentStepIndex
        IN IF ~Has(doc.workflow.steps, index) \/ ~Has(template.steps, index)
           THEN "Workflow is already complete."
           ELSE IF ~RoleMatches(At(template.steps, index), input.actorRole)
           THEN "This workflow step requires "
                  \o At(template.steps, index).role \o " role."
           ELSE OK

(* advanceWorkflow: signature id n, audit id n + 1. *)
advanceWorkflow(st, input, n, now) ==
  IF AdvanceFailure(st, input) # OK
  THEN Throw(st, AdvanceFailure(st, input))
  ELSE
  LET docIndex == FindIndex(st.documents, LAMBDA d : d.id = input.documentId)
      doc == At(st.documents, docIndex)
      tplIndex == FindIndex(st.workflows, LAMBDA wf : wf.id = doc.workflow.templateId)
      template == At(st.workflows, tplIndex)
      index == doc.workflow.currentStepIndex
      currentStep == At(doc.workflow.steps, index)
      stepDefinition == At(template.steps, index)
  IN
              LET signatureInput == [userId |-> input.actorId,
                                     documentId |-> doc.id,
                                     workflowStepId |-> currentStep.stepId,
                                     meaning |-> input.signatureMeaning,
                                     reason |-> input.reason,
                                     evidence |-> input.signatureEvidence]
                  d1 == upsertSignature(st, Uuid(n), now, signatureInput)
                  signature == NewSignature(Uuid(n), now, signatureInput)
                  completed == CompleteStep(currentStep, input, signature.id, now)
                  wf1 == MoveOn([doc.workflow EXCEPT !.steps[index + 1] = completed])
                  doc1 == [doc EXCEPT !.workflow = wf1, !.lastUpdatedAt = now]
                  summary == AdvanceSummary(stepDefinition, wf1.status)
                  d2 == ReplaceDocument(d1, docIndex, doc1)
              IN Result(OK,
                        recordAudit(d2, Uuid(n + 1), now,
                          [actorUserId |-> input.actorId,
                           action |-> "WORKFLOW_ADVANCED",
                           entityType |-> "Document",
                           entityId |-> doc.id,
                           summary |-> summary,
                           metadata |-> [step |-> stepDefinition.label,
                                         status |-> wf1.status,
                                         signatureId |-> signature.id,
                                         evidence |-> input.signatureEvidence]]),
                        2)

(* A variant of the precondition checks of rejectWorkflow without the *)
(* role check.                                                        *)
RejectFailureAnyRole(st, documentId, actorRole) ==
  LET docIndex == FindIndex(st.documents, LAMBDA d : d.id = documentId)
  IN IF docIndex = -1
     THEN "Document not found."
     ELSE
     LET doc == At(st.documents, docIndex)
         tplIndex == FindIndex(st.workflows, LAMBDA wf : wf.id = doc.workflow.templateId)
     IN IF tplIndex = -1
        THEN "Workflow template missing."
        ELSE IF ~Has(At(st.workflows, tplIndex).steps, doc.workflow.currentStepIndex)
        THEN "Workflow step not available."
        ELSE IF ~Has(doc.workflow.steps, doc.workflow.currentStepIndex)
        THEN "TypeError"
        ELSE OK

(* The precondition checks of rejectWorkflow, in their order.  Writing to *)
(* steps[index] when the instance has no such step is a TypeError inside  *)
(* the recipe.                                                            *)
RejectFailure(st, documentId, actorRole) ==
  LET docIndex == FindIndex(st.documents, LAMBDA d : d.id = documentId)
  IN IF docIndex = -1
     THEN "Document not found."
     ELSE
     LET doc == At(st.documents, docIndex)
         tplIndex == FindIndex(st.workflows, LAMBDA wf : wf.id = doc.workflow.templateId)
     IN IF tplIndex = -1
        THEN "Workflow template missing."
        ELSE
        LET template == At(st.workflows, tplIndex)
            index == doc.workflow.currentStepIndex
        IN IF ~Has(template.steps, index)
           THEN "Workflow step not available."
           ELSE IF ~RoleMatches(At(template.steps, index), actorRole)
           THEN "Insufficient privileges to reject this step."
           ELSE IF ~Has(doc.workflow.steps, index)
           THEN "TypeError"
           ELSE OK

(* rejectWorkflow: audit id n. *)
rejectWorkflow(st, documentId, actorId, actorRole, reason, n, now) ==
  IF RejectFailure(st, documentId, actorRole) # OK
  THEN Throw(st, RejectFailure(st, documentId, actorRole))
  ELSE
  LET docIndex == FindIndex(st.documents, LAMBDA d : d.id = documentId)
      doc == At(st.documents, docIndex)
      tplIndex == FindIndex(st.workflows, LAMBDA wf : wf.id = doc.workflow.templateId)
      template == At(st.workflows, tplIndex)
      index == doc.workflow.currentStepIndex
      stepDefinition == At(template.steps, index)
  IN
              LET d1 == ResetInstance(st, docIndex, actorId, reason, now)
              IN Result(OK,
                        recordAudit(d1, Uuid(n), now,
                          [actorUserId |-> actorId,
                           action |-> "WORKFLOW_REJECTED",
                           entityType |-> "Document",
                           entityId |-> doc.id,
                           summary |-> "Workflow rejected at step " \o stepDefinition.label,
                           metadata |-> [reason |-> reason, resetTo |-> "Draft"]]),
                        1)

(* A variant of the lifecycle write that also rewinds the workflow to its *)
(* first step.                                                            *)
SetLifecycleRewinding(st, documentId, actorId, status, action, summary, n, now) ==
  LET docIndex == FindIndex(st.documents, LAMBDA d : d.id = documentId)
  IN IF docIndex = -1
     THEN Throw(st, "Document not found.")
     ELSE LET doc == At(st.documents, docIndex)
              doc1 == [doc EXCEPT !.workflow.status = status,
                                  !.workflow.currentStepIndex = 0,
                                  !.lastUpdatedAt = now]
          IN Result(OK,
                    recordAudit(ReplaceDocument(st, docIndex, doc1), Uuid(n), now,
                      [actorUserId |-> actorId, action |-> action,
                       entityType |-> "Document", entityId |-> doc.id,
                       summary |-> summary, metadata |-> undefinedStr]),
                    1)

(* A variant of the lifecycle write that leaves no audit entry. *)
SetLifecycleUnaudited(st, documentId, actorId, status, action, summary, n, now) ==
  LET docIndex == FindIndex(st.documents, LAMBDA d : d.id = documentId)
  IN IF docIndex = -1
     THEN Throw(st, "Document not found.")
     ELSE Result(OK,
                 ReplaceDocument(st, docIndex,
                   [At(st.documents, docIndex) EXCEPT !.workflow.status = status,
                                                      !.lastUpdatedAt = now]),
                 0)

(* markEffective and archiveDocument share their shape: a direct write of *)
(* the overall status and one audit entry.                                *)
SetLifecycle(st, documentId, actorId, status, action, summary, n, now) ==
  LET docIndex == FindIndex(st.documents, LAMBDA d : d.id = documentId)
  IN IF docIndex = -1
     THEN Throw(st, "Document not found.")
     ELSE LET doc == At(st.documents, docIndex)
              doc1 == [doc EXCEPT !.workflow.status = status,
                                  !.lastUpdatedAt = now]
              d1 == ReplaceDocument(st, docIndex, doc1)
          IN Result(OK,
                    recordAudit(d1, Uuid(n), now,
                      [actorUserId |-> actorId,
                       action |-> action,
                       entityType |-> "Document",
                       entityId |-> doc.id,
                       summary |-> summary,
                       metadata |-> undefinedStr]),
                    1)

markEffective(st, documentId, actorId, n, now) ==
  SetLifecycle(st, documentId, actorId, "Effective", "DOCUMENT_EFFECTIVE",
               "Document released to effective state", n, now)

archiveDocument(st, documentId, actorId, n, now) ==
  SetLifecycle(st, documentId, actorId, "Archived", "DOCUMENT_ARCHIVED",
               "Document archived and removed from active distribution", n, now)

(* A variant of the clearing that leaves the catalog as it is. *)
KeepDefaults(wfs) == wfs

(* createWorkflow with isDefault: every template of the catalog loses *)
(* the default flag before the new one is added.                      *)
ClearDefaults(wfs) ==
  [i \in 1..Len(wfs) |-> [wfs[i] EXCEPT !.isDefault = FALSE]]

(* createWorkflow: template id n, step ids n + 1 .. n + k, audit id n + k + 1. *)
createWorkflow(st, input, n, now) ==
  LET k == Len(input.steps)
      workflow ==
        [id |-> Uuid(n),
         name |-> input.name,
         steps |-> [i \in 1..k |->
                      [id |-> Uuid(n + i),
                       label |-> input.steps[i].label,
                       role |-> input.steps[i].role,
                       requiresSignature |-> input.steps[i].requiresSignature,
                       signatureMeaning |->
                         IF input.steps[i].signatureMeaning = undefinedStr
                         THEN input.steps[i].label \o " electronically approved"
                         ELSE input.steps[i].signatureMeaning]],
         isDefault |-> input.isDefault,
         createdAt |-> now,
         createdById |-> input.actorId]
      cleared == IF workflow.isDefault
                 THEN ClearDefaults(st.workflows)
                 ELSE st.workflows
      d1 == [st EXCEPT !.workflows = Unshift(cleared, workflow)]
  IN Result(OK,
            recordAudit(d1, Uuid(n + k + 1), now,
              [actorUserId |-> input.actorId,
               action |-> "WORKFLOW_CREATED",
               entityType |-> "Workflow",
               entityId |-> workflow.id,
               summary |-> "Workflow \"" \o workflow.name \o "\" established",
               metadata |-> [steps |-> Len(workflow.steps),
                             default |-> workflow.isDefault]]),
            k + 2)

updateWorkflow(st, input, n, now) ==
  LET index == FindIndex(st.workflows, LAMBDA w : w.id = input.id)
  IN IF index = -1
     THEN Throw(st, "Workflow not found.")
     ELSE LET workflow == At(st.workflows, index)
              updatedWorkflow == Merge(workflow, input.updates)
              setsDefault == "isDefault" \in DOMAIN input.updates
                             /\ input.updates.isDefault
              wfs == IF setsDefault
                     THEN [i \in 1..Len(st.workflows) |->
                             IF st.workflows[i].id = input.id
                             THEN [updatedWorkflow EXCEPT !.isDefault = TRUE]
                             ELSE [st.workflows[i] EXCEPT !.isDefault = FALSE]]
                     ELSE [st.workflows EXCEPT ![index + 1] = updatedWorkflow]
              d1 == [st EXCEPT !.workflows = wfs]
          IN Result(OK,
                    recordAudit(d1, Uuid(n), now,
                      [actorUserId |-> input.actorId,
                       action |-> "WORKFLOW_UPDATED",
                       entityType |-> "Workflow",
                       entityId |-> input.id,
                       summary |-> "Workflow \"" \o workflow.name \o "\" updated",
                       metadata |-> input.updates]),
                    1)

-----------------------------------------------------------------------------
(* Inputs of the operations. *)

MissingId == "missing"

(* The callers: a user id with the role the identity provider reports. *)
Actors ==
  {[id |-> "u-author", role |-> "Author"],
   [id |-> "u-qa", role |-> "QA"],
   [id |-> "u-admin", role |-> "Admin"]}

ActorIds == {"u-admin"}

DocumentIdInputs == {documents[i].id : i \in DOMAIN documents} \cup {MissingId}

WorkflowIdInputs == {workflows[i].id : i \in DOMAIN workflows} \cup {MissingId}

DocumentTypeIdInputs ==
  (IF documentTypes = <<>> THEN {} ELSE {documentTypes[1].id}) \cup {MissingId}

StepInputs ==
  {[label |-> "Draft", role |-> "Author", requiresSignature |-> TRUE,
    signatureMeaning |-> undefinedStr],
   [label |-> "QA Check", role |-> "QA", requiresSignature |-> FALSE,
    signatureMeaning |-> "QA verified"]}

StepInput(role) == CHOOSE s \in StepInputs : s.role = role

(* The step lists offered to createWorkflow: of every length up to        *)
(* MaxSteps, one whose consecutive steps alternate between two roles and  *)
(* one whose steps all require the same role.                             *)
StepSeqs ==
  {[i \in 1..k |-> StepInput(IF i % 2 = 1 THEN "Author" ELSE "QA")] : k \in 0..MaxSteps}
  \cup {[i \in 1..k |-> StepInput("Author")] : k \in 0..MaxSteps}

CreateWorkflowInputs ==
  {[name |-> "wf", steps |-> ss, isDefault |-> FALSE, actorId |-> "u-admin"] :
     ss \in StepSeqs}
  \cup {[name |-> "wf", steps |-> ss, isDefault |-> TRUE, actorId |-> "u-admin"] :
     ss \in [1..1 -> StepInputs]}

UpdateWorkflowInputs ==
  {[isDefault |-> TRUE], [name |-> "wf2", isDefault |-> FALSE]}

CreateDocumentInputs ==
  {[title |-> "SOP", version |-> "1.0", documentTypeId |-> t,
    security |-> "Internal", createdById |-> "u-author", summary |-> "initial",
    riskClassification |-> "Low", workflowTemplateId |-> w] :
     t \in DocumentTypeIdInputs,
     w \in {workflows[i].id : i \in DOMAIN workflows} \cup {undefinedStr}}

UpdateDocumentInputs ==
  {[title |-> "SOP rev", metadata |-> [security |-> "Restricted"]]}

-----------------------------------------------------------------------------
(* The state machine. *)

NoCall == [op |-> "none", target |-> undefinedStr, actorId |-> undefinedStr,
           actorRole |-> undefinedStr, err |-> OK]

(* The callers tried on a document: everyone on a registered one, a single *)
(* caller on an id that is not registered.                                 *)
ActorsFor(id) ==
  IF id = MissingId THEN {a \in Actors : a.role = "Author"} ELSE Actors

(* The document detail page with no signature submission under way. *)
IdlePage == [pc |-> "idle", userId |-> undefinedStr, userRole |-> undefinedStr,
             documentId |-> undefinedStr, password |-> undefinedStr,
             reason |-> undefinedStr, meaning |-> undefinedStr,
             verified |-> undefinedStr, stepId |-> undefinedStr]

Empty ==
  /\ page = IdlePage
  /\ documentTypes = <<>>
  /\ documents = <<>>
  /\ workflows = <<>>
  /\ auditTrail = <<>>
  /\ signatures = <<>>
  /\ bootstrapped = FALSE
  /\ nextId = 1
  /\ clock = 1
  /\ lastCall = NoCall
  /\ auth = [users |-> <<>>, currentUser |-> [id |-> undefinedStr],
             bootstrapped |-> FALSE]
  /\ registrations = <<>>
  /\ logins = <<>>
  /\ second = IdlePage

(* Every operation of the store, in runs of at most MaxAudit successful calls. *)
Init ==
  /\ Empty
  /\ limits = [audit |-> MaxAudit, docs |-> MaxDocs, workflows |-> MaxWorkflows]

(* The workflow engine on its own, in longer runs over fewer documents and *)
(* templates.                                                              *)
InitEngine ==
  /\ Empty
  /\ limits = [audit |-> MaxEngineAudit, docs |-> MaxEngineDocs,
               workflows |-> MaxEngineWorkflows]

(* One document taken through its workflow, rejections included, to the *)
(* end.                                                                *)
InitRoundTrip ==
  /\ Empty
  /\ limits = [audit |-> MaxRoundTripAudit, docs |-> MaxEngineDocs,
               workflows |-> MaxEngineWorkflows]

(* A call that changes the store is taken only while the model's limits *)
(* leave room for its effects.                                          *)
WithinLimits(r) ==
  r.st # Store => /\ Len(auditTrail) < limits.audit
                  /\ Len(r.st.documents) <= limits.docs
                  /\ Len(r.st.workflows) <= limits.workflows

(* One call of a handler with result r: the store becomes the one the   *)
(* handler leaves, the UUIDs it drew are used up and time moves on.     *)
Effect(op, target, actorId, actorRole, r) ==
  /\ documentTypes' = r.st.documentTypes
  /\ documents' = r.st.documents
  /\ workflows' = r.st.workflows
  /\ auditTrail' = r.st.auditTrail
  /\ signatures' = r.st.signatures
  /\ bootstrapped' = r.st.bootstrapped
  /\ nextId' = nextId + r.ids
  /\ clock' = IF r.st # Store THEN clock + 1 ELSE clock
  /\ lastCall' = [op |-> op, target |-> target, actorId |-> actorId,
                  actorRole |-> actorRole, err |-> r.err]
  /\ UNCHANGED <<limits, auth, registrations, logins>>

(* A call made on the store directly: the page is not involved. *)
Call(op, target, actorId, actorRole, r) ==
  /\ Effect(op, target, actorId, actorRole, r)
  /\ UNCHANGED <<page, second>>

Bootstrap ==
  LET r == bootstrap(Store, nextId, clock)
  IN /\ WithinLimits(r)
     /\ Call("bootstrap", undefinedStr, undefinedStr, undefinedStr, r)

AddDocumentType ==
  \E type \in {"Manual"}, actorId \in ActorIds :
    LET r == addDocumentType(Store, [type |-> type, description |-> "custom"],
                             actorId, nextId, clock)
    IN /\ WithinLimits(r)
       /\ Call("addDocumentType", type, actorId, undefinedStr, r)

UpdateDocumentType ==
  \E id \in DocumentTypeIdInputs, actorId \in ActorIds :
    LET r == updateDocumentType(Store, id, [obsolete |-> TRUE], actorId,
                                nextId, clock)
    IN /\ WithinLimits(r)
       /\ Call("updateDocumentType", id, actorId, undefinedStr, r)

CreateDocument ==
  \E input \in CreateDocumentInputs :
    LET r == createDocument(Store, input, nextId, clock)
    IN /\ WithinLimits(r)
       /\ Call("createDocument", input.workflowTemplateId, input.createdById,
               undefinedStr, r)

UpdateDocument ==
  \E id \in DocumentIdInputs, updates \in UpdateDocumentInputs,
     actorId \in ActorIds :
    LET r == updateDocument(Store, [id |-> id, updates |-> updates,
                                    actorId |-> actorId], nextId, clock)
    IN /\ WithinLimits(r)
       /\ Call("updateDocument", id, actorId, undefinedStr, r)

AddVersion ==
  \E id \in DocumentIdInputs, actorId \in ActorIds :
    LET r == addVersion(Store, [documentId |-> id, versionLabel |-> "2.0",
                                summary |-> "revision", actorId |-> actorId],
                        nextId, clock)
    IN /\ WithinLimits(r)
       /\ Call("addVersion", id, actorId, undefinedStr, r)

AdvanceWorkflow ==
  \E id \in DocumentIdInputs : \E actor \in ActorsFor(id) :
    LET r == advanceWorkflow(Store,
               [documentId |-> id, actorId |-> actor.id,
                actorRole |-> actor.role, notes |-> "noted",
                reason |-> "approval",
                signatureMeaning |-> "Electronic approval recorded",
                signatureEvidence |-> "signed by " \o actor.id],
               nextId, clock)
    IN /\ WithinLimits(r)
       /\ Call("advanceWorkflow", id, actor.id, actor.role, r)

RejectWorkflow ==
  \E id \in DocumentIdInputs : \E actor \in ActorsFor(id) :
    LET r == rejectWorkflow(Store, id, actor.id, actor.role,
                            "insufficient evidence", nextId, clock)
    IN /\ WithinLimits(r)
       /\ Call("rejectWorkflow", id, actor.id, actor.role, r)

MarkEffective ==
  \E id \in DocumentIdInputs, actorId \in ActorIds :
    LET r == markEffective(Store, id, actorId, nextId, clock)
    IN /\ WithinLimits(r)
       /\ Call("markEffective", id, actorId, undefinedStr, r)

ArchiveDocument ==
  \E id \in DocumentIdInputs, actorId \in ActorIds :
    LET r == archiveDocument(Store, id, actorId, nextId, clock)
    IN /\ WithinLimits(r)
       /\ Call("archiveDocument", id, actorId, undefinedStr, r)

CreateWorkflow ==
  \E input \in CreateWorkflowInputs :
    LET r == createWorkflow(Store, input, nextId, clock)
    IN /\ WithinLimits(r)
       /\ Call("createWorkflow", undefinedStr, input.actorId, undefinedStr, r)

UpdateWorkflow ==
  \E id \in WorkflowIdInputs, updates \in UpdateWorkflowInputs,
     actorId \in ActorIds :
    LET r == updateWorkflow(Store, [id |-> id, actorId |-> actorId,
                                    updates |-> updates], nextId, clock)
    IN /\ WithinLimits(r)
       /\ Call("updateWorkflow", id, actorId, undefinedStr, r)

Next ==
  \/ Bootstrap
  \/ AddDocumentType
  \/ UpdateDocumentType
  \/ CreateDocument
  \/ UpdateDocument
  \/ AddVersion
  \/ AdvanceWorkflow
  \/ RejectWorkflow
  \/ MarkEffective
  \/ ArchiveDocument
  \/ CreateWorkflow
  \/ UpdateWorkflow

Spec == Init /\ [][Next]_vars

NextEngine ==
  \/ Bootstrap
  \/ CreateWorkflow
  \/ CreateDocument
  \/ AdvanceWorkflow
  \/ RejectWorkflow
  \/ MarkEffective
  \/ ArchiveDocument

SpecEngine == InitEngine /\ [][NextEngine]_vars

(* The operations on a document from its creation on: the workflow *)
(* transitions together with the edits of the record.              *)
NextLifecycle ==
  \/ CreateWorkflow
  \/ CreateDocument
  \/ UpdateDocument
  \/ AddVersion
  \/ AdvanceWorkflow
  \/ RejectWorkflow
  \/ MarkEffective
  \/ ArchiveDocument

SpecLifecycle == InitEngine /\ [][NextLifecycle]_vars

(* The calls of a review cycle on a single document: the first template, *)
(* the first document, then approvals and rejections.                    *)
CreateFirstWorkflow == workflows = <<>> /\ CreateWorkflow

CreateFirstDocument == documents = <<>> /\ CreateDocument

NextRoundTrip ==
  \/ CreateFirstWorkflow
  \/ CreateFirstDocument
  \/ AdvanceWorkflow
  \/ RejectWorkflow

SpecRoundTrip == InitRoundTrip /\ [][NextRoundTrip]_vars

TypeOK == Len(auditTrail) <= limits.audit

-----------------------------------------------------------------------------
(* Vocabulary of the properties.  Unprimed names read the state a call   *)
(* starts from, primed names the state it leaves; lastCall' is the call  *)
(* made by the step.                                                     *)

HasDoc(id) == \E i \in DOMAIN documents : documents[i].id = id

DocIn(docs, id) == docs[CHOOSE i \in DOMAIN docs : docs[i].id = id]

HasTemplate(doc) ==
  \E i \in DOMAIN workflows : workflows[i].id = doc.workflow.templateId

TemplateOf(doc) ==
  workflows[CHOOSE i \in DOMAIN workflows : workflows[i].id = doc.workflow.templateId]

(* The document has a template step at its current index. *)
AtRealStep(id) ==
  /\ HasDoc(id)
  /\ HasTemplate(DocIn(documents, id))
  /\ DocIn(documents, id).workflow.currentStepIndex
       < Len(TemplateOf(DocIn(documents, id)).steps)

RequiredRole(id) ==
  LET doc == DocIn(documents, id)
  IN TemplateOf(doc).steps[doc.workflow.currentStepIndex + 1].role

Succeeded(op) == lastCall'.op = op /\ lastCall'.err = OK

Failed(op) == lastCall'.op = op /\ lastCall'.err # OK

(* new is old with zero or more entries put in front of it. *)
GrewAtHead(old, new) ==
  /\ Len(new) >= Len(old)
  /\ SubSeq(new, Len(new) - Len(old) + 1, Len(new)) = old

-----------------------------------------------------------------------------
(* The auth store after its bootstrap, as far as the document detail page *)
(* uses it.  A bcrypt hash is modelled as an injective function of the    *)
(* password.                                                              *)
Hash(password) == "$2b$10$" \o password

bcryptCompare(password, passwordHash) == Hash(password) = passwordHash

PasswordOf(userId) == "pw-" \o userId

users ==
  {[id |-> a.id, role |-> a.role, passwordHash |-> Hash(PasswordOf(a.id)),
    enabled |-> TRUE] : a \in Actors}

(* verifyPassword: false for an unknown user, else the comparison of the *)
(* password with the user's hash.                                        *)
verifyPassword(userId, password) ==
  \E u \in users : u.id = userId /\ bcryptCompare(password, u.passwordHash)

(* The users the page can find logged in: the registered ones and one *)
(* whose id the auth store does not know.                             *)
CurrentUsers == Actors \cup {[id |-> "u-ghost", role |-> "Author"]}

PasswordInputs(user) == {PasswordOf(user.id), "wrong"}

ReasonInputs == {" ", "approval"}

(* String.prototype.trim on the inputs above. *)
Trim(str) == IF str = " " THEN "" ELSE str

-----------------------------------------------------------------------------
(* The document detail page. *)

(* currentStep.index: the current step index, capped at the last template *)
(* step.                                                                  *)
PageStepIndex(doc) ==
  LET last == Len(TemplateOf(doc).steps) - 1
  IN IF doc.workflow.currentStepIndex < last
     THEN doc.workflow.currentStepIndex ELSE last

(* currentStep?.definition is defined. *)
HasStepDefinition(doc) ==
  HasTemplate(doc) /\ Has(TemplateOf(doc).steps, PageStepIndex(doc))

StepDefinition(doc) == At(TemplateOf(doc).steps, PageStepIndex(doc))

(* currentStep.instance?.status === "In Progress" *)
InstanceInProgress(doc) ==
  /\ Has(doc.workflow.steps, PageStepIndex(doc))
  /\ At(doc.workflow.steps, PageStepIndex(doc)).status = "In Progress"

canAdvance(doc, user) ==
  /\ HasStepDefinition(doc)
  /\ InstanceInProgress(doc)
  /\ StepDefinition(doc).role = user.role
  /\ doc.workflow.status # "Approved"
  /\ doc.workflow.status # "Effective"
  /\ doc.workflow.status # "Archived"

canReject(doc, user) ==
  \/ canAdvance(doc, user)
  \/ /\ HasStepDefinition(doc)
     /\ StepDefinition(doc).role = user.role
     /\ InstanceInProgress(doc)

(* A variant of canMarkEffective that looks at the role only. *)
canMarkEffectiveAnyStatus(doc, user) ==
  user.role \in {"QA", "Admin"}

canMarkEffective(doc, user) ==
  /\ user.role \in {"QA", "Admin"}
  /\ doc.workflow.status = "Approved"

canArchive(doc, user) ==
  /\ user.role \in {"QA", "Admin"}
  /\ doc.workflow.status # "Archived"

(* A variant of the password gate that lets every submission through. *)
PasswordGateOpen(valid) == TRUE

(* submitSignature goes on to its other checks only when verifyPassword *)
(* returned true.                                                       *)
PasswordGate(valid) == valid

(* submitSignature up to its await: the Advance button is shown         *)
(* (canAdvance), the dialog is submitted and the handler, holding the   *)
(* user, the document and the step of its render, calls verifyPassword. *)
SubmitSignature ==
  /\ page.pc = "idle"
  /\ \E d \in DOMAIN documents, user \in CurrentUsers :
       \E password \in PasswordInputs(user), reason \in ReasonInputs :
         /\ canAdvance(documents[d], user)
         /\ page' = [pc |-> "verifying", userId |-> user.id,
                     userRole |-> user.role,
                     documentId |-> documents[d].id,
                     password |-> password, reason |-> reason,
                     meaning |->
                       IF StepDefinition(documents[d]).signatureMeaning
                            = undefinedStr
                       THEN "Electronic approval recorded"
                       ELSE StepDefinition(documents[d]).signatureMeaning,
                     verified |-> FALSE,
                     stepId |-> StepDefinition(documents[d]).id]
         /\ lastCall' = [op |-> "submitSignature",
                         target |-> documents[d].id, actorId |-> user.id,
                         actorRole |-> user.role, err |-> OK]
  /\ UNCHANGED <<storeVars, nextId, clock, limits, auth, registrations,
                 second, logins>>

(* submitSignature after its await: it stops when the password was not  *)
(* verified or the reason is blank, else it calls advanceWorkflow; an   *)
(* error of advanceWorkflow is caught and shown.                        *)
SubmitSignatureResume ==
  /\ page.pc = "verifying"
  /\ LET valid == verifyPassword(page.userId, page.password)
         r == IF ~PasswordGate(valid)
              THEN Throw(Store, "Password verification failed.")
              ELSE IF Trim(page.reason) = ""
              THEN Throw(Store,
                         "Provide a reason/justification for the signature.")
              ELSE advanceWorkflow(Store,
                     [documentId |-> page.documentId, actorId |-> page.userId,
                      actorRole |-> page.userRole, notes |-> "noted",
                      reason |-> page.reason,
                      signatureMeaning |-> page.meaning,
                      signatureEvidence |-> "signed by " \o page.userId],
                     nextId, clock)
         op == IF ~PasswordGate(valid) THEN "verifyPassword"
               ELSE IF Trim(page.reason) = "" THEN "submitSignature"
               ELSE "advanceWorkflow"
     IN /\ WithinLimits(r)
        /\ Effect(op, page.documentId, page.userId, page.userRole, r)
        /\ page' = [page EXCEPT !.pc = "idle", !.verified = valid]
        /\ UNCHANGED second

(* handleReject, offered when canReject. *)
HandleReject ==
  \E d \in DOMAIN documents, user \in CurrentUsers :
    LET r == rejectWorkflow(Store, documents[d].id, user.id, user.role,
                            "insufficient evidence", nextId, clock)
    IN /\ canReject(documents[d], user)
       /\ WithinLimits(r)
       /\ Call("rejectWorkflow", documents[d].id, user.id, user.role, r)

(* handleMarkEffective, offered when canMarkEffective. *)
HandleMarkEffective ==
  \E d \in DOMAIN documents, user \in CurrentUsers :
    LET r == markEffective(Store, documents[d].id, user.id, nextId, clock)
    IN /\ canMarkEffective(documents[d], user)
       /\ WithinLimits(r)
       /\ Call("markEffective", documents[d].id, user.id, user.role, r)

(* handleArchive, offered when canArchive. *)
HandleArchive ==
  \E d \in DOMAIN documents, user \in CurrentUsers :
    LET r == archiveDocument(Store, documents[d].id, user.id, nextId, clock)
    IN /\ canArchive(documents[d], user)
       /\ WithinLimits(r)
       /\ Call("archiveDocument", documents[d].id, user.id, user.role, r)

(* One document on one template worked on through the detail page only. *)
NextPage ==
  \/ CreateFirstWorkflow
  \/ CreateFirstDocument
  \/ SubmitSignature
  \/ SubmitSignatureResume
  \/ HandleReject
  \/ HandleMarkEffective
  \/ HandleArchive

SpecPage == InitEngine /\ [][NextPage]_vars

-----------------------------------------------------------------------------
(* C1: advanceWorkflow succeeds only when the actor's role is exactly the *)
(* role of the template step at the document's currentStepIndex; with    *)
(* any other role, Admin included, it fails with the role-mismatch error *)
(* naming the required role.                                             *)
C1_AdvanceRoleGate ==
  [][/\ Succeeded("advanceWorkflow")
          => /\ AtRealStep(lastCall'.target)
             /\ lastCall'.actorRole = RequiredRole(lastCall'.target)
     /\ ( /\ lastCall'.op = "advanceWorkflow"
          /\ AtRealStep(lastCall'.target)
          /\ lastCall'.actorRole # RequiredRole(lastCall'.target) )
          => lastCall'.err = "This workflow step requires "
                               \o RequiredRole(lastCall'.target) \o " role."
    ]_vars

(* An Admin was turned away from a step that requires Author. *)
C1_Witness ==
  /\ lastCall.op = "advanceWorkflow"
  /\ lastCall.actorRole = "Admin"
  /\ lastCall.err = "This workflow step requires Author role."

(* C2: fail closed.  Whenever a store operation fails a precondition, the *)
(* store after the call is the store before it: no document, template or *)
(* type changes, no signature is added and no audit entry is added.      *)
C2_FailClosed ==
  [][lastCall'.err # OK => UNCHANGED storeVars]_vars

(* Scenario C: the Author tries to advance a step that requires QA. *)
C2_Witness ==
  /\ lastCall.op = "advanceWorkflow"
  /\ lastCall.actorRole = "Author"
  /\ lastCall.err = "This workflow step requires QA role."
  /\ Len(signatures) = 1

(* The workflow state transitions and the audit action of each. *)
TransitionAction ==
  [advanceWorkflow |-> "WORKFLOW_ADVANCED",
   rejectWorkflow |-> "WORKFLOW_REJECTED",
   markEffective |-> "DOCUMENT_EFFECTIVE",
   archiveDocument |-> "DOCUMENT_ARCHIVED"]

SucceededTransition ==
  lastCall'.op \in DOMAIN TransitionAction /\ lastCall'.err = OK

(* C3 as stated: every successful advanceWorkflow, rejectWorkflow,       *)
(* markEffective and archiveDocument adds exactly one signature and      *)
(* exactly one audit entry.                                              *)
C3_OneSignatureAndOneAuditEntry ==
  [][SucceededTransition
       => /\ Len(signatures') = Len(signatures) + 1
          /\ Len(auditTrail') = Len(auditTrail) + 1]_vars

(* C3 as amended: every successful transition adds exactly one audit     *)
(* entry, with the action of the transition and the document as entity;  *)
(* advanceWorkflow also adds exactly one signature, and rejectWorkflow,  *)
(* markEffective and archiveDocument add none.                           *)
C3_OneAuditEntrySignatureOnAdvance ==
  [][SucceededTransition
       => /\ Len(auditTrail') = Len(auditTrail) + 1
          /\ Tail(auditTrail') = auditTrail
          /\ auditTrail'[1].action = TransitionAction[lastCall'.op]
          /\ auditTrail'[1].entityId = lastCall'.target
          /\ IF lastCall'.op = "advanceWorkflow"
             THEN /\ Len(signatures') = Len(signatures) + 1
                  /\ Tail(signatures') = signatures
             ELSE signatures' = signatures]_vars

(* A document was released to Effective after one sign-off. *)
C3_Witness ==
  /\ lastCall.op = "markEffective"
  /\ lastCall.err = OK
  /\ Len(signatures) = 1
  /\ auditTrail[1].action = "DOCUMENT_EFFECTIVE"

(* C4: the signature registry and the WORKFLOW_ADVANCED audit entries are *)
(* in one-to-one correspondence: each signature is named by exactly one   *)
(* such entry, whose entity is the signature's document; each such entry  *)
(* names exactly one signature; and every Completed step references a     *)
(* signature of the registry.                                             *)
C4_SignatureAuditCorrespondence ==
  /\ \A i \in DOMAIN signatures :
       LET named == {j \in DOMAIN auditTrail :
                       /\ auditTrail[j].action = "WORKFLOW_ADVANCED"
                       /\ auditTrail[j].metadata.signatureId = signatures[i].id}
       IN /\ Cardinality(named) = 1
          /\ \A j \in named : auditTrail[j].entityId = signatures[i].documentId
  /\ \A j \in DOMAIN auditTrail :
       auditTrail[j].action = "WORKFLOW_ADVANCED"
         => Cardinality({i \in DOMAIN signatures :
                           signatures[i].id = auditTrail[j].metadata.signatureId}) = 1
  /\ \A d \in DOMAIN documents : \A k \in DOMAIN documents[d].workflow.steps :
       documents[d].workflow.steps[k].status = "Completed"
         => \E i \in DOMAIN signatures :
              /\ signatures[i].id = documents[d].workflow.steps[k].signatureId
              /\ signatures[i].documentId = documents[d].id
              /\ signatures[i].workflowStepId = documents[d].workflow.steps[k].stepId

(* Two sign-offs are on record and both steps of a document are Completed. *)
C4_Witness ==
  /\ Len(signatures) = 2
  /\ \E d \in DOMAIN documents :
       /\ Len(documents[d].workflow.steps) = 2
       /\ \A k \in DOMAIN documents[d].workflow.steps :
            documents[d].workflow.steps[k].status = "Completed"

(* C5: a successful advanceWorkflow on a step that is not the last marks  *)
(* the current step Completed with the actor and the id of the signature  *)
(* minted by this call (for this document and this step), moves           *)
(* currentStepIndex on by exactly one, sets the step at the new index to  *)
(* In Progress and the overall status to In Review; no other step changes. *)
C5_AdvanceIntermediateStep ==
  [][( /\ Succeeded("advanceWorkflow")
       /\ HasDoc(lastCall'.target)
       /\ DocIn(documents, lastCall'.target).workflow.currentStepIndex + 1
            < Len(DocIn(documents, lastCall'.target).workflow.steps) )
       => LET before == DocIn(documents, lastCall'.target).workflow
              after == DocIn(documents', lastCall'.target).workflow
              k == before.currentStepIndex
              minted == signatures'[1]
          IN /\ Len(signatures') = Len(signatures) + 1
             /\ \A i \in DOMAIN signatures : signatures[i].id # minted.id
             /\ minted.documentId = lastCall'.target
             /\ minted.workflowStepId = before.steps[k + 1].stepId
             /\ after.steps[k + 1].stepId = before.steps[k + 1].stepId
             /\ after.steps[k + 1].status = "Completed"
             /\ after.steps[k + 1].actorUserId = lastCall'.actorId
             /\ after.steps[k + 1].signatureId = minted.id
             /\ after.currentStepIndex = k + 1
             /\ after.steps[k + 2] = [before.steps[k + 2] EXCEPT !.status = "In Progress"]
             /\ after.status = "In Review"
             /\ Len(after.steps) = Len(before.steps)
             /\ \A j \in DOMAIN before.steps :
                  j \notin {k + 1, k + 2} => after.steps[j] = before.steps[j]
    ]_vars

(* The first step of the four-step standard workflow was signed off. *)
C5_Witness ==
  /\ lastCall.op = "advanceWorkflow"
  /\ lastCall.err = OK
  /\ LET wf == DocIn(documents, lastCall.target).workflow
     IN /\ Len(wf.steps) = 4
        /\ wf.currentStepIndex = 1
        /\ wf.steps[2].status = "In Progress"

(* C6: a successful advanceWorkflow on the last step marks it Completed,  *)
(* sets the overall status to Approved and currentStepIndex to the number *)
(* of steps, and its audit summary is the workflow-completed text; on an  *)
(* earlier step the summary is "<step label> signed off".                 *)
C6_AdvanceLastStep ==
  [][( Succeeded("advanceWorkflow") /\ AtRealStep(lastCall'.target) )
       => LET before == DocIn(documents, lastCall'.target).workflow
              after == DocIn(documents', lastCall'.target).workflow
              k == before.currentStepIndex
              label == TemplateOf(DocIn(documents, lastCall'.target)).steps[k + 1].label
          IN IF k = Len(before.steps) - 1
             THEN /\ after.steps[k + 1].status = "Completed"
                  /\ after.status = "Approved"
                  /\ after.currentStepIndex = Len(before.steps)
                  /\ Len(after.steps) = Len(before.steps)
                  /\ auditTrail'[1].summary = "Workflow completed and document approved"
             ELSE auditTrail'[1].summary = label \o " signed off"
    ]_vars

(* The second and last step of a two-step workflow was signed off. *)
C6_Witness ==
  /\ lastCall.op = "advanceWorkflow"
  /\ lastCall.err = OK
  /\ LET wf == DocIn(documents, lastCall.target).workflow
     IN /\ Len(wf.steps) = 2
        /\ wf.currentStepIndex = 2
        /\ wf.status = "Approved"
  /\ auditTrail[1].summary = "Workflow completed and document approved"

(* C7 as stated: when a document's currentStepIndex equals the number of *)
(* its steps, every advanceWorkflow call on it, with any role, fails     *)
(* with the workflow-complete error and leaves the store unchanged.      *)
C7_CompleteWorkflowRefusesAdvance ==
  [][( /\ lastCall'.op = "advanceWorkflow"
       /\ HasDoc(lastCall'.target)
       /\ DocIn(documents, lastCall'.target).workflow.currentStepIndex
            = Len(DocIn(documents, lastCall'.target).workflow.steps) )
       => /\ lastCall'.err = "Workflow is already complete."
          /\ UNCHANGED storeVars]_vars

(* C8: a successful rejectWorkflow resets the whole instance:            *)
(* currentStepIndex 0, status Draft, step 0 In Progress with startedAt   *)
(* taken at the rejection, every other step Pending, and completedAt,    *)
(* actorUserId and signatureId cleared on every step; the stepIds keep   *)
(* their number and order.  It adds one WORKFLOW_REJECTED audit entry.   *)
C8_RejectResetsInstance ==
  [][Succeeded("rejectWorkflow")
       => LET before == DocIn(documents, lastCall'.target).workflow
              after == DocIn(documents', lastCall'.target).workflow
          IN /\ after.currentStepIndex = 0
             /\ after.status = "Draft"
             /\ Len(after.steps) = Len(before.steps)
             /\ \A j \in DOMAIN after.steps :
                  /\ after.steps[j].stepId = before.steps[j].stepId
                  /\ after.steps[j].status =
                       (IF j = 1 THEN "In Progress" ELSE "Pending")
                  /\ after.steps[j].completedAt = undefinedTime
                  /\ after.steps[j].actorUserId = undefinedStr
                  /\ after.steps[j].signatureId = undefinedStr
             /\ after.steps[1].startedAt = clock
             /\ after.steps[1].startedAt # undefinedTime
             /\ Len(auditTrail') = Len(auditTrail) + 1
             /\ Tail(auditTrail') = auditTrail
             /\ auditTrail'[1].action = "WORKFLOW_REJECTED"
             /\ auditTrail'[1].entityId = lastCall'.target
             /\ auditTrail'[1].timestamp = after.steps[1].startedAt
    ]_vars

(* Scenario B: QA rejected at the second step of a two-step workflow. *)
C8_Witness ==
  /\ lastCall.op = "rejectWorkflow"
  /\ lastCall.err = OK
  /\ lastCall.actorRole = "QA"
  /\ LET wf == DocIn(documents, lastCall.target).workflow
     IN /\ Len(wf.steps) = 2
        /\ wf.status = "Draft"
        /\ wf.steps[1].startedAt > wf.initiatedAt

(* C9: rejectWorkflow leaves the signature registry unchanged: every   *)
(* signature minted before the rejection is still there with the same  *)
(* fields, although no step references it any more.                    *)
C9_RejectKeepsSignatures ==
  [][Succeeded("rejectWorkflow") => signatures' = signatures]_vars

(* After a rejection the registry holds a signature of the document that *)
(* none of its steps references.                                         *)
C9_Witness ==
  /\ lastCall.op = "rejectWorkflow"
  /\ lastCall.err = OK
  /\ \E i \in DOMAIN signatures :
       /\ signatures[i].documentId = lastCall.target
       /\ \A k \in DOMAIN DocIn(documents, lastCall.target).workflow.steps :
            DocIn(documents, lastCall.target).workflow.steps[k].signatureId
              # signatures[i].id

(* C10: the audit trail and the signature registry are append-only over *)
(* every operation: each step keeps the entries there were, unchanged   *)
(* and in their order, and puts a new entry in front of them.           *)
C10_AppendOnlyNewestFirst ==
  [][/\ GrewAtHead(auditTrail, auditTrail')
     /\ GrewAtHead(signatures, signatures')]_vars

(* Three entries are in the audit trail, the newest first, and a *)
(* signature is in the registry.                                 *)
C10_Witness ==
  /\ Len(auditTrail) = 3
  /\ auditTrail[1].timestamp > auditTrail[2].timestamp
  /\ auditTrail[2].timestamp > auditTrail[3].timestamp
  /\ Len(signatures) = 1

(* Steps of a workflow instance by position (0-based, as the index). *)
StepStatus(doc, i) == doc.workflow.steps[i + 1].status

StepIndexes(doc) == 0..(Len(doc.workflow.steps) - 1)

(* C11: in every reachable state every document's workflow instance has *)
(* at most one step with status In Progress.                            *)
C11_AtMostOneInProgress ==
  \A d \in DOMAIN documents :
    Cardinality({i \in StepIndexes(documents[d]) :
                   StepStatus(documents[d], i) = "In Progress"}) <= 1

(* A two-step instance after its first step was advanced: the first step *)
(* is Completed and the second is the one In Progress.                   *)
C11_Witness ==
  /\ lastCall.op = "advanceWorkflow"
  /\ lastCall.err = OK
  /\ \E d \in DOMAIN documents :
       /\ Len(documents[d].workflow.steps) = 2
       /\ StepStatus(documents[d], 0) = "Completed"
       /\ StepStatus(documents[d], 1) = "In Progress"

(* C12: for every document 0 <= currentStepIndex <= steps.length, every  *)
(* step before currentStepIndex is Completed, the step at it (if any) is *)
(* In Progress, every step after it is Pending, and currentStepIndex     *)
(* equals steps.length exactly when all steps are Completed.             *)
C12_StepIndexInvariant ==
  \A d \in DOMAIN documents :
    LET doc == documents[d]
        idx == doc.workflow.currentStepIndex
        n == Len(doc.workflow.steps)
    IN /\ 0 <= idx /\ idx <= n
       /\ \A i \in StepIndexes(doc) :
            StepStatus(doc, i) = (IF i < idx THEN "Completed"
                                  ELSE IF i = idx THEN "In Progress"
                                  ELSE "Pending")
       /\ (idx = n) <=> (\A i \in StepIndexes(doc) :
                           StepStatus(doc, i) = "Completed")

(* A record edit (addVersion or updateDocument) made on a document whose *)
(* workflow has advanced past its first step.                            *)
C12_Witness ==
  /\ lastCall.op \in {"addVersion", "updateDocument"}
  /\ lastCall.err = OK
  /\ HasDoc(lastCall.target)
  /\ DocIn(documents, lastCall.target).workflow.currentStepIndex = 1
  /\ Len(DocIn(documents, lastCall.target).workflow.steps) = 2

(* C13: in every reachable state at most one workflow template has *)
(* isDefault true.                                                  *)
C13_AtMostOneDefault ==
  Cardinality({i \in DOMAIN workflows : workflows[i].isDefault}) <= 1

(* A template created as the default on top of the bootstrap catalog: *)
(* the seeded default template has lost its flag.                     *)
C13_Witness ==
  /\ lastCall.op = "createWorkflow"
  /\ lastCall.err = OK
  /\ bootstrapped
  /\ Len(workflows) = 2
  /\ workflows[1].isDefault
  /\ workflows[2].createdById = SYSTEM_USER_ID
  /\ ~workflows[2].isDefault

(* C14: in every reachable state every document has a non-empty       *)
(* versionHistory and its currentVersion is the label of the version at *)
(* the head of it.                                                      *)
C14_CurrentVersionIsHead ==
  \A d \in DOMAIN documents :
    /\ Len(documents[d].versionHistory) >= 1
    /\ documents[d].currentVersion = documents[d].versionHistory[1].versionLabel

(* A document that got a second version and was then edited with *)
(* updateDocument.                                                *)
C14_Witness ==
  /\ lastCall.op = "updateDocument"
  /\ lastCall.err = OK
  /\ \E d \in DOMAIN documents :
       /\ documents[d].id = lastCall.target
       /\ Len(documents[d].versionHistory) = 2
       /\ documents[d].versionHistory[1].versionLabel
            # documents[d].versionHistory[2].versionLabel

(* The role-mismatch errors of advanceWorkflow, one per role a step can *)
(* require.                                                            *)
RoleMismatchErrors ==
  {"This workflow step requires " \o SUPPORTED_ROLES[i] \o " role." :
     i \in DOMAIN SUPPORTED_ROLES}

(* C15 as stated: when an advanceWorkflow call succeeded on a document    *)
(* and the very next call is advanceWorkflow on the same document with    *)
(* the same actor role, that call fails with the workflow-complete or the *)
(* role-mismatch error and the workflow does not advance again.           *)
C15_NoDoubleAdvance ==
  [][( /\ lastCall.op = "advanceWorkflow"
       /\ lastCall.err = OK
       /\ lastCall'.op = "advanceWorkflow"
       /\ lastCall'.target = lastCall.target
       /\ lastCall'.actorRole = lastCall.actorRole )
       => /\ lastCall'.err \in {"Workflow is already complete."}
                                 \cup RoleMismatchErrors
          /\ UNCHANGED storeVars]_vars

(* The stepIds of a document's instance, in order. *)
StepIds(doc) == [j \in DOMAIN doc.workflow.steps |-> doc.workflow.steps[j].stepId]

(* The times at which the document was rejected, read off the audit trail. *)
RejectionTimes(trail, id) ==
  {trail[k].timestamp : k \in {k \in DOMAIN trail :
                                 /\ trail[k].action = "WORKFLOW_REJECTED"
                                 /\ trail[k].entityId = id}}

(* C16: round trip.  Rejections and approvals keep the number and order *)
(* of the instance's stepIds; and when, after a rejection, the approvals *)
(* with the required roles reach the end, every step is Completed, the   *)
(* status is Approved and every signatureId the steps reference names a  *)
(* signature minted after the rejection, distinct from the id of every   *)
(* signature minted before it.                                           *)
C16_RejectThenReadvance ==
  [][( (Succeeded("advanceWorkflow") \/ Succeeded("rejectWorkflow"))
       => LET before == DocIn(documents, lastCall'.target)
              after == DocIn(documents', lastCall'.target)
              rejections == RejectionTimes(auditTrail', after.id)
          IN /\ StepIds(after) = StepIds(before)
             /\ ( /\ lastCall'.op = "advanceWorkflow"
                  /\ after.workflow.currentStepIndex = Len(after.workflow.steps)
                  /\ rejections # {} )
                => /\ after.workflow.status = "Approved"
                   /\ \A j \in DOMAIN after.workflow.steps :
                        LET step == after.workflow.steps[j]
                        IN /\ step.status = "Completed"
                           /\ \E i \in DOMAIN signatures' :
                                /\ signatures'[i].id = step.signatureId
                                /\ signatures'[i].workflowStepId = step.stepId
                                /\ \A t \in rejections : signatures'[i].signedAt > t
                           /\ \A i \in DOMAIN signatures' :
                                (\E t \in rejections : signatures'[i].signedAt < t)
                                  => signatures'[i].id # step.signatureId )
    ]_vars

(* A two-step document approved to the end after a rejection at its *)
(* second step: the registry still holds the signature minted before *)
(* the rejection.                                                    *)
C16_Witness ==
  /\ lastCall.op = "advanceWorkflow"
  /\ lastCall.err = OK
  /\ LET doc == DocIn(documents, lastCall.target)
     IN /\ Len(doc.workflow.steps) = 2
        /\ doc.workflow.currentStepIndex = 2
        /\ doc.workflow.status = "Approved"
        /\ \E t \in RejectionTimes(auditTrail, doc.id) :
             \E i \in DOMAIN signatures :
               /\ signatures[i].documentId = doc.id
               /\ signatures[i].signedAt < t

(* C17 as stated: Archived is terminal.  A document whose overall status *)
(* is Archived is Archived after every step, whichever operation the     *)
(* step is.                                                              *)
C17_ArchivedIsTerminal ==
  [][\A d \in DOMAIN documents :
       documents[d].workflow.status = "Archived"
         => \E e \in DOMAIN documents' :
              /\ documents'[e].id = documents[d].id
              /\ documents'[e].workflow.status = "Archived"]_vars

(* C18: in the document detail page every advanceWorkflow call is made  *)
(* by a submission that has called verifyPassword for the same actor id *)
(* and got true (the user is registered and the password is theirs);    *)
(* a submission whose verifyPassword returned false does not call       *)
(* advanceWorkflow and creates no signature and no audit entry.         *)
C18_PasswordBeforeSignature ==
  [][/\ lastCall'.op = "advanceWorkflow"
          => /\ page.pc = "verifying"
             /\ page'.verified
             /\ lastCall'.actorId = page.userId
             /\ \E u \in users : /\ u.id = page.userId
                                 /\ u.passwordHash = Hash(page.password)
     /\ (page.pc = "verifying" /\ page'.pc = "idle" /\ ~page'.verified)
          => /\ lastCall'.op # "advanceWorkflow"
             /\ signatures' = signatures
             /\ auditTrail' = auditTrail]_vars

(* A submission with the right password has advanced the workflow and *)
(* its signature is in the registry.                                  *)
C18_Witness ==
  /\ lastCall.op = "advanceWorkflow"
  /\ lastCall.err = OK
  /\ page.pc = "idle"
  /\ page.verified
  /\ page.password = PasswordOf(lastCall.actorId)
  /\ Len(signatures) >= 1
  /\ signatures[1].userId = page.userId

(* The ids of the templates in the catalog. *)
TemplateIds == {workflows[i].id : i \in DOMAIN workflows}

DefaultTemplates == {i \in DOMAIN workflows : workflows[i].isDefault}

(* C19: createDocument builds the instance on the template whose id is   *)
(* the requested workflowTemplateId, else on the template marked default, *)
(* else on the first template of the catalog; on an empty catalog it      *)
(* fails with the no-workflow-available error and registers no document   *)
(* and no audit entry.                                                    *)
C19_TemplateResolutionOrder ==
  [][lastCall'.op = "createDocument"
       => IF workflows = <<>>
          THEN /\ lastCall'.err = "No workflow template available."
               /\ documents' = documents
               /\ auditTrail' = auditTrail
          ELSE /\ lastCall'.err = OK
               /\ Len(documents') = Len(documents) + 1
               /\ documents'[1].workflow.templateId =
                    (IF lastCall'.target \in TemplateIds
                     THEN lastCall'.target
                     ELSE IF DefaultTemplates # {}
                     THEN workflows[CHOOSE i \in DefaultTemplates :
                                      \A j \in DefaultTemplates : i <= j].id
                     ELSE workflows[1].id)]_vars

(* Scenario D: no workflowTemplateId, two templates in the catalog and *)
(* none marked default; the document is on the first one.              *)
C19_Witness ==
  /\ lastCall.op = "createDocument"
  /\ lastCall.err = OK
  /\ lastCall.target = undefinedStr
  /\ Len(workflows) = 2
  /\ DefaultTemplates = {}
  /\ documents[1].workflow.templateId = workflows[1].id

(* C20 as stated: createDocument requires a resolvable document type.  A *)
(* call whose documentTypeId matches no entry of documentTypes fails and  *)
(* creates nothing; so every document a successful call registers carries *)
(* the id of a registered document type.                                  *)
C20_DocumentTypeRequired ==
  [][Succeeded("createDocument")
       => \E i \in DOMAIN documentTypes :
            documentTypes[i].id = documents'[1].documentTypeId]_vars

(* C21: a successful createDocument registers exactly one new document,  *)
(* at the head of the list: status Draft, currentStepIndex 0, one        *)
(* instance step per step of its template in template order, step 0 In   *)
(* Progress and the others Pending, one version carrying the input's     *)
(* version label; it adds exactly one DOCUMENT_CREATED audit entry and no *)
(* signature.                                                            *)
C21_CreateDocumentEffects ==
  [][Succeeded("createDocument")
       => LET new == documents'[1]
              template == TemplateOf(new)
          IN /\ Len(documents') = Len(documents) + 1
             /\ Tail(documents') = documents
             /\ ~HasDoc(new.id)
             /\ HasTemplate(new)
             /\ new.workflow.status = "Draft"
             /\ new.workflow.currentStepIndex = 0
             /\ Len(new.workflow.steps) = Len(template.steps)
             /\ \A j \in DOMAIN new.workflow.steps :
                  /\ new.workflow.steps[j].stepId = template.steps[j].id
                  /\ new.workflow.steps[j].status =
                       (IF j = 1 THEN "In Progress" ELSE "Pending")
             /\ Len(new.versionHistory) = 1
             /\ new.versionHistory[1].versionLabel
                  \in {input.version : input \in CreateDocumentInputs}
             /\ new.versionHistory[1].versionLabel = new.currentVersion
             /\ Len(auditTrail') = Len(auditTrail) + 1
             /\ Tail(auditTrail') = auditTrail
             /\ auditTrail'[1].action = "DOCUMENT_CREATED"
             /\ auditTrail'[1].entityId = new.id
             /\ signatures' = signatures]_vars

(* A document just created on a two-step template, next to an older one. *)
C21_Witness ==
  /\ lastCall.op = "createDocument"
  /\ lastCall.err = OK
  /\ Len(documents) = 2
  /\ Len(documents[1].workflow.steps) = 2
  /\ documents[1].workflow.steps[1].status = "In Progress"
  /\ documents[1].workflow.steps[2].status = "Pending"

(* C22: advanceWorkflow checks that the document exists, that its        *)
(* template exists, that there is a current step and that the role        *)
(* matches, in this order, and reports the first check that fails: a      *)
(* wrong role on a completed workflow gives the workflow-complete error,  *)
(* a missing template gives the template-missing error whatever the step  *)
(* index and the role.                                                    *)
C22_AdvancePreconditionOrder ==
  [][lastCall'.op = "advanceWorkflow"
       => lastCall'.err =
            (IF ~HasDoc(lastCall'.target)
             THEN "Document not found."
             ELSE IF ~HasTemplate(DocIn(documents, lastCall'.target))
             THEN "Workflow template missing."
             ELSE IF ~AtRealStep(lastCall'.target)
             THEN "Workflow is already complete."
             ELSE IF RequiredRole(lastCall'.target) # lastCall'.actorRole
             THEN "This workflow step requires "
                    \o RequiredRole(lastCall'.target) \o " role."
             ELSE OK)]_vars

(* A call on a document that is complete and has lost its template: the *)
(* error is the template-missing one.                                   *)
C22_Witness ==
  /\ lastCall.op = "advanceWorkflow"
  /\ lastCall.err = "Workflow template missing."
  /\ HasDoc(lastCall.target)
  /\ LET doc == DocIn(documents, lastCall.target)
     IN /\ doc.workflow.currentStepIndex = Len(doc.workflow.steps)
        /\ Len(doc.workflow.steps) = 1

(* C23: advanceWorkflow mints a signature only when the definition of the *)
(* step it completes has requiresSignature = TRUE; completing a step with *)
(* requiresSignature = FALSE leaves the signature registry as it was.     *)
C23_SignatureOnlyWhenRequired ==
  [][(/\ Succeeded("advanceWorkflow")
      /\ LET doc == DocIn(documents, lastCall'.target)
         IN ~At(TemplateOf(doc).steps,
                doc.workflow.currentStepIndex).requiresSignature)
       => signatures' = signatures]_vars

(* C24: rejectWorkflow succeeds only when the document and its template  *)
(* exist, currentStepIndex points at a template step, that step of the    *)
(* instance is the one In Progress, and actorRole is the step's required  *)
(* role; every other call, such as one on a completed workflow or one     *)
(* with another step's role, fails and changes nothing.                   *)
C24_RejectPreconditions ==
  [][lastCall'.op = "rejectWorkflow"
       => LET id == lastCall'.target
              legal == /\ AtRealStep(id)
                       /\ LET doc == DocIn(documents, id)
                              index == doc.workflow.currentStepIndex
                          IN /\ index < Len(doc.workflow.steps)
                             /\ doc.workflow.steps[index + 1].status = "In Progress"
                             /\ \A j \in DOMAIN doc.workflow.steps :
                                  j # index + 1
                                    => doc.workflow.steps[j].status # "In Progress"
                       /\ RequiredRole(id) = lastCall'.actorRole
          IN /\ (lastCall'.err = OK) <=> legal
             /\ lastCall'.err # OK => UNCHANGED storeVars]_vars

(* A rejection of a completed two-step workflow by the role of its last *)
(* step has failed.                                                     *)
C24_Witness ==
  /\ lastCall.op = "rejectWorkflow"
  /\ lastCall.err = "Workflow step not available."
  /\ HasDoc(lastCall.target)
  /\ LET doc == DocIn(documents, lastCall.target)
     IN /\ HasTemplate(doc)
        /\ Len(doc.workflow.steps) = 2
        /\ doc.workflow.currentStepIndex = 2
        /\ lastCall.actorRole = TemplateOf(doc).steps[2].role

(* Documents under the seeded template, each far enough into its life *)
(* for an operation on one to meet an operation on the other.         *)
InitPair ==
  /\ Empty
  /\ limits = [audit |-> MaxPairAudit, docs |-> MaxPairDocs,
               workflows |-> MaxPairWorkflows]

NextPair ==
  \/ Bootstrap
  \/ CreateDocument
  \/ UpdateDocument
  \/ AddVersion
  \/ AdvanceWorkflow
  \/ RejectWorkflow
  \/ MarkEffective
  \/ ArchiveDocument

SpecPair == InitPair /\ [][NextPair]_vars

(* The calls of the operations that target one document, as the actions *)
(* draw them, by the callers whose role some step may require.          *)
DocumentCalls(id) ==
  {[op |-> op, documentId |-> id, actorId |-> actorId, actorRole |-> undefinedStr] :
     op \in {"updateDocument", "addVersion", "markEffective", "archiveDocument"},
     actorId \in ActorIds}
  \cup
  {[op |-> op, documentId |-> id, actorId |-> actor.id, actorRole |-> actor.role] :
     op \in {"advanceWorkflow", "rejectWorkflow"},
     actor \in {a \in Actors : a.role \in {"Author", "QA"}}}

(* The handler a call runs, with the UUIDs from n on and the time now. *)
ApplyCall(st, c, n, now) ==
  CASE c.op = "updateDocument" ->
         updateDocument(st, [id |-> c.documentId,
                             updates |-> CHOOSE u \in UpdateDocumentInputs : TRUE,
                             actorId |-> c.actorId], n, now)
    [] c.op = "addVersion" ->
         addVersion(st, [documentId |-> c.documentId, versionLabel |-> "2.0",
                         summary |-> "revision", actorId |-> c.actorId], n, now)
    [] c.op = "advanceWorkflow" ->
         advanceWorkflow(st, [documentId |-> c.documentId, actorId |-> c.actorId,
                              actorRole |-> c.actorRole, notes |-> "noted",
                              reason |-> "approval",
                              signatureMeaning |-> "Electronic approval recorded",
                              signatureEvidence |-> "signed by " \o c.actorId],
                         n, now)
    [] c.op = "rejectWorkflow" ->
         rejectWorkflow(st, c.documentId, c.actorId, c.actorRole,
                        "insufficient evidence", n, now)
    [] c.op = "markEffective" -> markEffective(st, c.documentId, c.actorId, n, now)
    [] c.op = "archiveDocument" -> archiveDocument(st, c.documentId, c.actorId, n, now)

DocumentOps ==
  {"updateDocument", "addVersion", "advanceWorkflow", "rejectWorkflow",
   "markEffective", "archiveDocument"}

(* Every step of an operation on one document leaves the other records *)
(* of the collection as they were.                                     *)
OtherDocumentsUnchanged ==
  lastCall'.op \in DocumentOps
    => /\ Len(documents') = Len(documents)
       /\ \A i \in DOMAIN documents :
            documents[i].id # lastCall'.target => documents'[i] = documents[i]

(* A call on document a and a call on document b, each with its own     *)
(* UUIDs and its own reading of the clock, leave the same documents and *)
(* the same ledger entries in either order.                             *)
CallsCommute ==
  \A i, j \in DOMAIN documents :
    i < j =>
      LET callsA == DocumentCalls(documents[i].id)
          callsB == DocumentCalls(documents[j].id)
          afterA == [ca \in callsA |-> ApplyCall(Store, ca, nextId, clock).st]
          afterB == [cb \in callsB |-> ApplyCall(Store, cb, nextId + 2, clock + 1).st]
      IN \A ca \in callsA, cb \in callsB :
           LET ab == ApplyCall(afterA[ca], cb, nextId + 2, clock + 1).st
               ba == ApplyCall(afterB[cb], ca, nextId, clock).st
           IN /\ ab.documents = ba.documents
              /\ Range(ab.signatures) = Range(ba.signatures)
              /\ Range(ab.auditTrail) = Range(ba.auditTrail)
              /\ ab.workflows = ba.workflows
              /\ ab.documentTypes = ba.documentTypes

(* C25: an operation that targets one document (updateDocument,         *)
(* addVersion, advanceWorkflow, rejectWorkflow, markEffective,          *)
(* archiveDocument) leaves every other document record unchanged, and   *)
(* an operation on document A and one on document B give the same state *)
(* of A and of B in either order, the order of the ledgers aside.       *)
C25_CrossDocumentIndependence ==
  /\ []CallsCommute
  /\ [][OtherDocumentsUnchanged]_vars

(* The older of two documents has been advanced while the newer one is *)
(* still at its first step.                                            *)
C25_Witness ==
  /\ Len(documents) = 2
  /\ lastCall.op = "advanceWorkflow"
  /\ lastCall.err = OK
  /\ lastCall.target = documents[2].id
  /\ documents[2].workflow.steps[1].status = "Completed"
  /\ documents[1].workflow.steps[1].status = "In Progress"

(* In a version history the head, and only the head, has no supersededAt. *)
OneCurrentVersion(doc) ==
  /\ doc.versionHistory # <<>>
  /\ \A k \in DOMAIN doc.versionHistory :
       (doc.versionHistory[k].supersededAt = undefinedTime) <=> (k = 1)

(* addVersion keeps every supersededAt that was set before the call. *)
AddVersionKeepsSuperseded ==
  Succeeded("addVersion")
    => LET old == DocIn(documents, lastCall'.target).versionHistory
           new == DocIn(documents', lastCall'.target).versionHistory
       IN /\ Len(new) = Len(old) + 1
          /\ \A k \in DOMAIN old :
               /\ new[k + 1].id = old[k].id
               /\ old[k].supersededAt # undefinedTime
                    => new[k + 1].supersededAt = old[k].supersededAt

(* C26: in every reachable state every document's versionHistory has      *)
(* exactly one entry without supersededAt, the one at index 0, and every  *)
(* older entry has it set; addVersion never overwrites a supersededAt     *)
(* that is already set.                                                   *)
C26_VersionHistorySuperseded ==
  /\ [](\A i \in DOMAIN documents : OneCurrentVersion(documents[i]))
  /\ [][AddVersionKeepsSuperseded]_vars

(* A second addVersion on a document: three versions, the two older ones *)
(* superseded at different times.                                        *)
C26_Witness ==
  /\ lastCall.op = "addVersion"
  /\ lastCall.err = OK
  /\ LET history == DocIn(documents, lastCall.target).versionHistory
     IN /\ Len(history) = 3
        /\ history[1].supersededAt = undefinedTime
        /\ history[2].supersededAt > history[3].supersededAt
        /\ history[3].supersededAt # undefinedTime

(* C27: a document's overall status becomes Archived only from Approved *)
(* or Effective; no operation archives a document that is Draft or In   *)
(* Review.                                                              *)
C27_ArchivedOnlyFromApprovedOrEffective ==
  [][\A i \in DOMAIN documents :
       \A j \in DOMAIN documents' :
         (/\ documents'[j].id = documents[i].id
          /\ documents'[j].workflow.status = "Archived"
          /\ documents[i].workflow.status # "Archived")
           => documents[i].workflow.status \in {"Approved", "Effective"}]_vars

(* C28: addVersion, updateDocument, markEffective and archiveDocument   *)
(* never change a document's currentStepIndex, its instance steps, its  *)
(* templateId or the signature registry; addVersion and updateDocument  *)
(* also leave the overall workflow status unchanged, and markEffective  *)
(* and archiveDocument change nothing of the document but the overall   *)
(* status and lastUpdatedAt.                                            *)
C28_EditsLeaveWorkflowState ==
  [][lastCall'.op \in {"addVersion", "updateDocument", "markEffective",
                        "archiveDocument"}
       => /\ signatures' = signatures
          /\ Len(documents') = Len(documents)
          /\ \A i \in DOMAIN documents :
               LET old == documents[i]
                   new == documents'[i]
               IN /\ new.id = old.id
                  /\ new.workflow.currentStepIndex = old.workflow.currentStepIndex
                  /\ new.workflow.steps = old.workflow.steps
                  /\ new.workflow.templateId = old.workflow.templateId
                  /\ lastCall'.op \in {"addVersion", "updateDocument"}
                       => new.workflow = old.workflow
                  /\ lastCall'.op \in {"markEffective", "archiveDocument"}
                       => new = [old EXCEPT
                                   !.workflow.status = new.workflow.status,
                                   !.lastUpdatedAt = new.lastUpdatedAt]]_vars

(* markEffective on a document whose first step was signed off and whose *)
(* second step is open.                                                  *)
C28_Witness ==
  /\ lastCall.op = "markEffective"
  /\ lastCall.err = OK
  /\ LET doc == DocIn(documents, lastCall.target)
     IN /\ doc.workflow.status = "Effective"
        /\ doc.workflow.currentStepIndex = 1
        /\ Len(doc.workflow.steps) = 2
        /\ doc.workflow.steps[1].status = "Completed"
        /\ doc.workflow.steps[1].signatureId # undefinedStr
        /\ signatures # <<>>

(* C29: in every reachable state every document's workflow.templateId *)
(* names a template of the catalog, the instance has as many steps as  *)
(* that template, and the i-th instance stepId is the id of the i-th   *)
(* template step.                                                      *)
C29_ReferentialIntegrity ==
  \A i \in DOMAIN documents :
    LET doc == documents[i]
    IN /\ HasTemplate(doc)
       /\ Len(doc.workflow.steps) = Len(TemplateOf(doc).steps)
       /\ \A j \in DOMAIN doc.workflow.steps :
            doc.workflow.steps[j].stepId = TemplateOf(doc).steps[j].id

-----------------------------------------------------------------------------
(* The auth store: `auth` is its state (a null currentUser is a record *)
(* with an undefined id), `registrations` the registerUser calls that  *)
(* have passed their checks and wait for bcrypt.hash, and `logins` the *)
(* login calls that wait for bcrypt.compare.                           *)

DEFAULT_USER_SEED ==
  <<[email |-> "admin@documentmanagement.pharma", role |-> "Admin",
     signature |-> "Admin Signatory"],
    [email |-> "qa@documentmanagement.pharma", role |-> "QA",
     signature |-> "QA Verification"],
    [email |-> "author@documentmanagement.pharma", role |-> "Author",
     signature |-> "Document Author Approval"],
    [email |-> "reviewer@documentmanagement.pharma", role |-> "Reviewer",
     signature |-> "Reviewer Verification"]>>

(* buildDefaultUsers: the seed with ids n .. n + 3. *)
buildDefaultUsers(n) ==
  [k \in DOMAIN DEFAULT_USER_SEED |->
     [id |-> Uuid(n + k - 1),
      email |-> DEFAULT_USER_SEED[k].email,
      role |-> DEFAULT_USER_SEED[k].role,
      passwordHash |-> Hash(PasswordOf(DEFAULT_USER_SEED[k].role)),
      signature |-> DEFAULT_USER_SEED[k].signature,
      lastLoginAt |-> undefinedTime,
      enabled |-> TRUE]]

EmailInputs ==
  {"new@gxp.io", "New@GxP.io", "Admin@DocumentManagement.pharma"}

(* String.prototype.toLowerCase on the e-mail addresses above and on the *)
(* stored ones, which are lower case.                                    *)
ToLowerCase(str) ==
  CASE str = "New@GxP.io" -> "new@gxp.io"
    [] str = "Admin@DocumentManagement.pharma" -> "admin@documentmanagement.pharma"
    [] OTHER -> str

RegisterUserInputs ==
  {[email |-> email, password |-> "secret", role |-> role] :
     email \in EmailInputs, role \in {"Author", "Guest"}}

(* The callers of registerUser: an administrator, another user, and an id *)
(* the store does not know.                                              *)
RegisterActorIds ==
  {u.id : u \in {v \in Range(auth.users) : v.role \in {"Admin", "Author"}}}
    \cup {MissingId}

(* registerUser up to its await: the error it throws, OK when it goes on *)
(* to hash the password.                                                 *)
RegisterUserFailure(st, input, actorId) ==
  LET actorIndex == FindIndex(st.users, LAMBDA u : u.id = actorId)
  IN IF actorIndex = -1 \/ At(st.users, actorIndex).role # "Admin"
     THEN "Only administrators can provision new users."
     ELSE IF input.role \notin Range(SUPPORTED_ROLES)
     THEN "Unsupported role selected."
     ELSE IF \E u \in Range(st.users) :
               ToLowerCase(u.email) = ToLowerCase(input.email)
     THEN "User with this email already exists."
     ELSE OK

(* registerUser after its await: the new user goes to the head of the *)
(* users the store holds by then.                                     *)
InsertUser(st, input, n) ==
  [st EXCEPT !.users =
     Unshift(@, [id |-> Uuid(n),
                 email |-> ToLowerCase(input.email),
                 role |-> input.role,
                 passwordHash |-> Hash(input.password),
                 signature |-> undefinedStr,
                 lastLoginAt |-> undefinedTime,
                 enabled |-> TRUE])]

Remove(s, k) == [i \in 1 .. Len(s) - 1 |-> IF i < k THEN s[i] ELSE s[i + 1]]

AuthStep(op, target, actorId, err) ==
  /\ lastCall' = [op |-> op, target |-> target, actorId |-> actorId,
                  actorRole |-> undefinedStr, err |-> err]
  /\ UNCHANGED <<storeVars, clock, limits, page, second, logins>>

AuthBootstrap ==
  /\ IF auth.bootstrapped
     THEN UNCHANGED <<auth, nextId>>
     ELSE /\ auth' = [auth EXCEPT !.users = buildDefaultUsers(nextId),
                                  !.bootstrapped = TRUE]
          /\ nextId' = nextId + Len(DEFAULT_USER_SEED)
  /\ UNCHANGED registrations
  /\ AuthStep("authBootstrap", undefinedStr, undefinedStr, OK)

RegisterUser ==
  \E input \in RegisterUserInputs, actorId \in RegisterActorIds :
    LET err == RegisterUserFailure(auth, input, actorId)
    IN /\ Len(registrations) < MaxRegistrations
       /\ registrations' =
            IF err = OK
            THEN Append(registrations, [input |-> input, actorId |-> actorId])
            ELSE registrations
       /\ UNCHANGED <<auth, nextId>>
       /\ AuthStep("registerUser", input.email, actorId, err)

RegisterUserResume ==
  \E k \in DOMAIN registrations :
    /\ Len(auth.users) < MaxUsers
    /\ auth' = InsertUser(auth, registrations[k].input, nextId)
    /\ nextId' = nextId + 1
    /\ registrations' = Remove(registrations, k)
    /\ AuthStep("registerUserResume", registrations[k].input.email,
                registrations[k].actorId, OK)

NextAuth ==
  \/ AuthBootstrap
  \/ RegisterUser
  \/ RegisterUserResume

InitAuth ==
  /\ Empty
  /\ limits = [audit |-> MaxAudit, docs |-> MaxDocs, workflows |-> MaxWorkflows]

SpecAuth == InitAuth /\ [][NextAuth]_vars

(* C30: in every reachable state no two users have the same e-mail     *)
(* address compared without regard to case, also when two registerUser *)
(* calls for one address overlap across the hashing of the password.   *)
C30_UniqueEmails ==
  \A i, j \in DOMAIN auth.users :
    i # j => ToLowerCase(auth.users[i].email) # ToLowerCase(auth.users[j].email)

(* The overall status of an instance agrees with its step position. *)
StatusMatchesPosition(workflow) ==
  LET n == Len(workflow.steps)
      index == workflow.currentStepIndex
  IN /\ workflow.status = "Approved"
          => /\ index = n
             /\ \A j \in DOMAIN workflow.steps :
                  workflow.steps[j].status = "Completed"
     /\ workflow.status = "Draft"
          => /\ index = 0
             /\ \A j \in DOMAIN workflow.steps :
                  workflow.steps[j].status # "Completed"
     /\ workflow.status = "In Review" => (0 < index /\ index < n)

(* C31: in every reachable state status Approved implies currentStepIndex *)
(* = steps.length and all steps Completed, status Draft implies           *)
(* currentStepIndex = 0 and no step Completed, and status In Review       *)
(* implies 0 < currentStepIndex < steps.length.                           *)
C31_StatusMatchesPosition ==
  \A i \in DOMAIN documents : StatusMatchesPosition(documents[i].workflow)

(* A two-step document approved by the advance of its last step. *)
C31_Witness ==
  /\ lastCall.op = "advanceWorkflow"
  /\ lastCall.err = OK
  /\ LET workflow == DocIn(documents, lastCall.target).workflow
     IN /\ workflow.status = "Approved"
        /\ Len(workflow.steps) = 2
        /\ workflow.currentStepIndex = 2

(* C32: whenever a document's currentStepIndex equals steps.length its *)
(* steps list is non-empty and its status is Approved, Effective or    *)
(* Archived; every template of the catalog has at least one step.      *)
C32_CompletionMeansSignedOff ==
  /\ \A i \in DOMAIN documents :
       LET workflow == documents[i].workflow
       IN workflow.currentStepIndex = Len(workflow.steps)
            => /\ workflow.steps # <<>>
               /\ workflow.status \in {"Approved", "Effective", "Archived"}
  /\ \A i \in DOMAIN workflows : workflows[i].steps # <<>>

(* C33: no reachable state holds an instance step with status Rejected; *)
(* after any sequence of operations every step is Pending, In Progress  *)
(* or Completed.                                                        *)
C33_NoRejectedStep ==
  \A i \in DOMAIN documents :
    \A j \in DOMAIN documents[i].workflow.steps :
      documents[i].workflow.steps[j].status
        \in {"Pending", "In Progress", "Completed"}

(* A rejection at the second step of a two-step document, by the role of *)
(* that step.                                                            *)
C33_Witness ==
  /\ lastCall.op = "rejectWorkflow"
  /\ lastCall.err = OK
  /\ LET doc == DocIn(documents, lastCall.target)
     IN /\ HasTemplate(doc)
        /\ Len(doc.workflow.steps) = 2
        /\ TemplateOf(doc).steps[2].role = lastCall.actorRole
        /\ TemplateOf(doc).steps[1].role # lastCall.actorRole
        /\ doc.workflow.steps[2].status = "Pending"

(* C37: in every reachable state every instance step with status In *)
(* Progress has startedAt set, however it became the current step.   *)
C37_InProgressHasStartedAt ==
  \A i \in DOMAIN documents :
    \A j \in DOMAIN documents[i].workflow.steps :
      documents[i].workflow.steps[j].status = "In Progress"
        => documents[i].workflow.steps[j].startedAt # undefinedTime

(* advanceWorkflow called on the document by a user who holds the role *)
(* its current step requires.                                          *)
AdvanceByRequiredRole(st, documentId, n, now) ==
  LET doc == At(st.documents,
                FindIndex(st.documents, LAMBDA d : d.id = documentId))
      template == At(st.workflows,
                     FindIndex(st.workflows,
                               LAMBDA wf : wf.id = doc.workflow.templateId))
      role == At(template.steps, doc.workflow.currentStepIndex).role
  IN advanceWorkflow(st,
       [documentId |-> documentId, actorId |-> "u-" \o role,
        actorRole |-> role, notes |-> "noted", reason |-> "approval",
        signatureMeaning |-> "Electronic approval recorded",
        signatureEvidence |-> "signed by u-" \o role],
       n, now)

(* The store after m such advances in a row, each with its own UUIDs and *)
(* its own reading of the clock; failed is set when one of them throws.  *)
RECURSIVE AdvanceRun(_, _, _, _, _)
AdvanceRun(st, documentId, m, n, now) ==
  IF m = 0
  THEN [failed |-> FALSE, st |-> st]
  ELSE LET r == AdvanceByRequiredRole(st, documentId, n, now)
       IN IF r.err # OK
          THEN [failed |-> TRUE, st |-> st]
          ELSE AdvanceRun(r.st, documentId, m - 1, n + r.ids, now + 1)

(* From a document at step k of the n >= 1 steps of its template, n - k *)
(* advances by the required roles all succeed and leave it Approved at  *)
(* index n with n - k more signatures; fewer advances leave it short of *)
(* the end.                                                             *)
RunsToApproval(doc) ==
  LET n == Len(TemplateOf(doc).steps)
      k == doc.workflow.currentStepIndex
  IN (n >= 1 /\ k < n)
       => /\ LET run == AdvanceRun(Store, doc.id, n - k, nextId, clock)
                 after == DocIn(run.st.documents, doc.id)
             IN /\ ~run.failed
                /\ after.workflow.status = "Approved"
                /\ after.workflow.currentStepIndex = n
                /\ Len(run.st.signatures) = Len(signatures) + (n - k)
          /\ \A m \in 0 .. n - k - 1 :
               LET run == AdvanceRun(Store, doc.id, m, nextId, clock)
                   after == DocIn(run.st.documents, doc.id)
               IN /\ ~run.failed
                  /\ after.workflow.currentStepIndex = k + m
                  /\ Len(run.st.signatures) = Len(signatures) + m

(* C34: for a document whose template has n >= 1 steps, from any         *)
(* reachable state with currentStepIndex = k < n, advancing each current *)
(* step by an actor with that step's required role, with no              *)
(* rejectWorkflow, markEffective or archiveDocument in between, gives    *)
(* after exactly n - k successful advances status Approved,              *)
(* currentStepIndex = n and exactly n - k more signatures.               *)
C34_AdvancesReachApproval ==
  \A i \in DOMAIN documents :
    HasTemplate(documents[i]) => RunsToApproval(documents[i])

(* A two-step document after the advance of its first step: one advance *)
(* is left to its approval.                                             *)
C34_Witness ==
  /\ lastCall.op = "advanceWorkflow"
  /\ lastCall.err = OK
  /\ LET doc == DocIn(documents, lastCall.target)
     IN /\ HasTemplate(doc)
        /\ Len(TemplateOf(doc).steps) = 2
        /\ doc.workflow.currentStepIndex = 1
        /\ doc.workflow.status = "In Review"

-----------------------------------------------------------------------------
(* Two submissions of the signature dialog under way at once: `second` is *)
(* the submission of a second click on the dialog that `page` submitted,  *)
(* made by the same handler closure while the first awaits verifyPassword. *)

SubmitSignatureAgain ==
  /\ page.pc = "verifying"
  /\ second.pc = "idle"
  /\ second' = page
  /\ lastCall' = [op |-> "submitSignature", target |-> page.documentId,
                  actorId |-> page.userId, actorRole |-> page.userRole,
                  err |-> OK]
  /\ UNCHANGED <<storeVars, nextId, clock, limits, auth, registrations, page,
                 logins>>

(* The second submission after its await. *)
SubmitSignatureAgainResume ==
  /\ second.pc = "verifying"
  /\ LET valid == verifyPassword(second.userId, second.password)
         r == IF ~PasswordGate(valid)
              THEN Throw(Store, "Password verification failed.")
              ELSE IF Trim(second.reason) = ""
              THEN Throw(Store,
                         "Provide a reason/justification for the signature.")
              ELSE advanceWorkflow(Store,
                     [documentId |-> second.documentId,
                      actorId |-> second.userId,
                      actorRole |-> second.userRole, notes |-> "noted",
                      reason |-> second.reason,
                      signatureMeaning |-> second.meaning,
                      signatureEvidence |-> "signed by " \o second.userId],
                     nextId, clock)
         op == IF ~PasswordGate(valid) THEN "verifyPassword"
               ELSE IF Trim(second.reason) = "" THEN "submitSignature"
               ELSE "advanceWorkflow"
     IN /\ WithinLimits(r)
        /\ Effect(op, second.documentId, second.userId, second.userRole, r)
        /\ second' = [second EXCEPT !.pc = "idle", !.verified = valid]
        /\ UNCHANGED page

(* One document signed off through the detail page, with double clicks. *)
NextDoubleSubmit ==
  \/ CreateFirstWorkflow
  \/ CreateFirstDocument
  \/ SubmitSignature
  \/ SubmitSignatureAgain
  \/ SubmitSignatureResume
  \/ SubmitSignatureAgainResume

SpecDoubleSubmit == InitEngine /\ [][NextDoubleSubmit]_vars

(* The template step with the given id. *)
TemplateStep(wfs, stepId) ==
  LET w == CHOOSE i \in DOMAIN wfs :
             \E j \in DOMAIN wfs[i].steps : wfs[i].steps[j].id = stepId
  IN wfs[w].steps[CHOOSE j \in DOMAIN wfs[w].steps : wfs[w].steps[j].id = stepId]

(* C35: through the document detail page every minted signature carries  *)
(* the signatureMeaning of the template step its workflowStepId names,   *)
(* and a submission completes only the step that was displayed when it   *)
(* was submitted, also when two submissions for one document overlap     *)
(* across verifyPassword and consecutive steps require the same role.    *)
C35_SubmissionSignsDisplayedStep ==
  [][Succeeded("advanceWorkflow")
       => LET doc == DocIn(documents, lastCall'.target)
              completed == At(doc.workflow.steps, doc.workflow.currentStepIndex)
              submission == IF page.pc = "verifying" /\ page'.pc = "idle"
                            THEN page ELSE second
              signature == signatures'[1]
          IN /\ signature.workflowStepId = completed.stepId
             /\ signature.meaning
                  = TemplateStep(workflows, signature.workflowStepId).signatureMeaning
             /\ completed.stepId = submission.stepId]_vars

-----------------------------------------------------------------------------
(* login, toggleUserState and updateSignature of the auth store. *)

LoginInputs ==
  {[email |-> email, password |-> password] :
     email \in {"qa@documentmanagement.pharma",
                "Admin@DocumentManagement.pharma", "new@gxp.io"},
     password \in {PasswordOf("QA"), "wrong"}}

(* login up to its await: the error it throws, OK when it goes on to *)
(* compare the password.                                             *)
LoginFailure(st, email) ==
  LET index == FindIndex(st.users,
                 LAMBDA u : ToLowerCase(u.email) = ToLowerCase(Trim(email)))
  IN IF index = -1
     THEN "Invalid credentials."
     ELSE IF ~At(st.users, index).enabled
     THEN "Account is disabled. Contact QA administration."
     ELSE OK

(* The user login found before its await. *)
LoginUser(st, email) ==
  At(st.users,
     FindIndex(st.users,
       LAMBDA u : ToLowerCase(u.email) = ToLowerCase(Trim(email))))

(* The write of login after its await: the user found before the await, *)
(* with the new lastLoginAt, replaces the record of that id and becomes *)
(* the current user.                                                    *)
FinishLogin(st, user, now) ==
  LET updatedUser == [user EXCEPT !.lastLoginAt = now]
  IN [st EXCEPT !.users = [i \in DOMAIN @ |->
                             IF @[i].id = updatedUser.id
                             THEN updatedUser ELSE @[i]],
                !.currentUser = updatedUser]

toggleUserState(st, userId, enabled) ==
  [st EXCEPT !.users = [i \in DOMAIN @ |->
                          IF @[i].id = userId
                          THEN [@[i] EXCEPT !.enabled = enabled] ELSE @[i]]]

updateSignature(st, userId, signature) ==
  [st EXCEPT !.users = [i \in DOMAIN @ |->
                          IF @[i].id = userId
                          THEN [@[i] EXCEPT !.signature = signature] ELSE @[i]],
             !.currentUser =
                IF @.id = userId
                THEN [@ EXCEPT !.signature = signature] ELSE @]

(* The users whose state and signature are edited. *)
EditedUserIds ==
  {u.id : u \in {v \in Range(auth.users) : v.role = "QA"}}

LoginStep(op, target, actorId, err) ==
  /\ lastCall' = [op |-> op, target |-> target, actorId |-> actorId,
                  actorRole |-> undefinedStr, err |-> err]
  /\ UNCHANGED <<storeVars, nextId, limits, page, second, registrations>>

Login ==
  \E input \in LoginInputs :
    LET err == LoginFailure(auth, input.email)
    IN /\ Len(logins) < MaxLogins
       /\ logins' =
            IF err = OK
            THEN Append(logins, [user |-> LoginUser(auth, input.email),
                                 password |-> input.password])
            ELSE logins
       /\ UNCHANGED <<auth, clock>>
       /\ LoginStep("login", input.email, undefinedStr, err)

LoginResume ==
  \E k \in DOMAIN logins :
    LET user == logins[k].user
        valid == bcryptCompare(logins[k].password, user.passwordHash)
    IN /\ clock <= MaxLoginTime
       /\ logins' = Remove(logins, k)
       /\ IF valid
          THEN /\ auth' = FinishLogin(auth, user, clock)
               /\ clock' = clock + 1
          ELSE UNCHANGED <<auth, clock>>
       /\ LoginStep("loginResume", user.id, user.id,
                    IF valid THEN OK ELSE "Invalid credentials.")

ToggleUserState ==
  \E userId \in EditedUserIds, enabled \in BOOLEAN :
    /\ auth' = toggleUserState(auth, userId, enabled)
    /\ UNCHANGED <<logins, clock>>
    /\ LoginStep("toggleUserState", userId, undefinedStr, OK)

UpdateSignature ==
  \E userId \in EditedUserIds, signature \in {"QA Lead"} :
    /\ auth' = updateSignature(auth, userId, signature)
    /\ UNCHANGED <<logins, clock>>
    /\ LoginStep("updateSignature", userId, undefinedStr, OK)

NextLogin ==
  \/ AuthBootstrap
  \/ Login
  \/ LoginResume
  \/ ToggleUserState
  \/ UpdateSignature

SpecLogin == InitAuth /\ [][NextLogin]_vars

(* C36: a login that finishes changes only the lastLoginAt of the user it *)
(* authenticated and currentUser; what toggleUserState or updateSignature *)
(* wrote while it awaited the password comparison is kept, so a user      *)
(* disabled meanwhile stays disabled and is not the current user as an    *)
(* enabled one.                                                           *)
C36_LoginKeepsConcurrentEdits ==
  [][Succeeded("loginResume")
       => /\ Len(auth'.users) = Len(auth.users)
          /\ \A i \in DOMAIN auth.users :
               auth'.users[i] =
                 IF auth.users[i].id = lastCall'.target
                 THEN [auth.users[i] EXCEPT
                         !.lastLoginAt = auth'.users[i].lastLoginAt]
                 ELSE auth.users[i]
          /\ \A i \in DOMAIN auth.users :
               (auth.users[i].id = lastCall'.target /\ ~auth.users[i].enabled)
                 => ~auth'.currentUser.enabled]_vars

(* C38: with operations issued through the guards of the document detail *)
(* page only, a document's status becomes Effective only directly from    *)
(* Approved and only by an action of a user whose role is QA or Admin;    *)
(* Sign & Advance is offered only while the status is not Approved,       *)
(* Effective or Archived and the current step is In Progress and requires *)
(* the user's role.                                                       *)
C38_PageGuards ==
  [][/\ \A i \in DOMAIN documents :
          \A j \in DOMAIN documents' :
            (/\ documents'[j].id = documents[i].id
             /\ documents'[j].workflow.status = "Effective"
             /\ documents[i].workflow.status # "Effective")
              => /\ documents[i].workflow.status = "Approved"
                 /\ lastCall'.op = "markEffective"
                 /\ lastCall'.target = documents[i].id
                 /\ lastCall'.actorRole \in {"QA", "Admin"}
     /\ (page.pc = "idle" /\ page'.pc = "verifying")
          => LET doc == DocIn(documents, page'.documentId)
             IN /\ doc.workflow.status \notin {"Approved", "Effective", "Archived"}
                /\ AtRealStep(doc.id)
                /\ At(doc.workflow.steps, doc.workflow.currentStepIndex).status
                     = "In Progress"
                /\ RequiredRole(doc.id) = page'.userRole]_vars

(* A document approved through the page and then released by QA. *)
C38_Witness ==
  /\ lastCall.op = "markEffective"
  /\ lastCall.err = OK
  /\ lastCall.actorRole = "QA"
  /\ LET doc == DocIn(documents, lastCall.target)
     IN /\ doc.workflow.status = "Effective"
        /\ doc.workflow.currentStepIndex = Len(doc.workflow.steps)
        /\ Len(doc.workflow.steps) >= 1
        /\ \E i \in DOMAIN signatures : signatures[i].documentId = doc.id

====
